---- MODULE Spec2Model ----
(***************************************************************************)
(* Socrata MCP server: the domain guard, the remote call adapter, the      *)
(* response shaper and the tool handlers, as a state machine.              *)
(*                                                                         *)
(* JSON values are tagged records, one field set per type, so that values  *)
(* of different types compare unequal:                                     *)
(*   undefined  [t]            null  [t]                                   *)
(*   boolean    [t, b]         number [t, n]                               *)
(*   string     [t, s, rep]    the text s repeated rep times               *)
(*   message    [t, limit, length]   truncateResponse's _message string    *)
(*   fragment   [t, of, upto]  a prefix of the serialization of a value    *)
(*   array      [t, a]         a sequence of values                        *)
(*   object     [t, o]         a function from property names to values    *)
(***************************************************************************)
EXTENDS Integers, Sequences, FiniteSets, TLC

VARIABLES ALLOWED_DOMAINS, remote, inv, shaper

vars == <<ALLOWED_DOMAINS, remote, inv, shaper>>

\* ------------------------------------------------------------------ bounds
\* Longest sequence handed to the response shaper.
MaxItems == 2

\* ------------------------------------------------------------- JSON values
Undef == [t |-> "undefined"]

Null == [t |-> "null"]

Bool(b) == [t |-> "bool", b |-> b]

Num(n) == [t |-> "num", n |-> n]

Rep(s, k) == [t |-> "str", s |-> s, rep |-> k]

Str(s) == Rep(s, 1)

Arr(q) == [t |-> "arr", a |-> q]

Obj(f) == [t |-> "obj", o |-> f]

NoFields == [k \in {} |-> Undef]

IsObj(v) == v.t = "obj"

IsArr(v) == v.t = "arr"

\* Array.isArray(v)
isArray(v) == IsArr(v)

\* typeof v === 'object' && v !== null : true of arrays as well as of objects
isNonNullObject(v) == v.t \in {"obj", "arr"}

\* JavaScript truthiness of a value
Truthy(v) ==
  CASE v.t = "undefined" -> FALSE
    [] v.t = "null" -> FALSE
    [] v.t = "bool" -> v.b
    [] v.t = "num" -> v.n # 0
    [] v.t = "str" -> Len(v.s) * v.rep > 0
    [] OTHER -> TRUE

\* Decimal digits of a natural number.
RECURSIVE NumDigits(_)
NumDigits(n) == IF n < 10 THEN 1 ELSE 1 + NumDigits(n \div 10)

DigitChars == <<"0", "1", "2", "3", "4", "5", "6", "7", "8", "9">>

\* String(i) for an array index i
RECURSIVE IndexKey(_)
IndexKey(i) ==
  IF i < 10 THEN DigitChars[i + 1]
  ELSE IndexKey(i \div 10) \o DigitChars[(i % 10) + 1]

\* v[k] : property k of a value, undefined when it has none
Get(v, k) ==
  IF IsObj(v) /\ k \in DOMAIN v.o THEN v.o[k] ELSE Undef

\* { ...a, ...b } on property maps: b's properties overwrite a's
Assign(a, b) ==
  [k \in (DOMAIN a) \cup (DOMAIN b) |-> IF k \in DOMAIN b THEN b[k] ELSE a[k]]

\* { ...v } : the own enumerable properties of a value
Spread(v) ==
  CASE v.t = "obj" -> v.o
    [] v.t = "arr" ->
         [k \in {IndexKey(i - 1) : i \in 1..Len(v.a)} |->
            v.a[CHOOSE i \in 1..Len(v.a) : IndexKey(i - 1) = k]]
    [] v.t = "str" /\ Len(v.s) = 1 ->
         [k \in {IndexKey(i - 1) : i \in 1..v.rep} |-> Str(v.s)]
    [] OTHER -> NoFields

TruncatedAt == "Response truncated at "

OriginalLength == " characters. Original length: "

Message(limit, length) == [t |-> "msg", limit |-> limit, length |-> length]

RECURSIVE SumOver(_, _)
\* Sum of f[x] over the elements x of the finite set S.
SumOver(S, f) ==
  IF S = {} THEN 0
  ELSE LET x == CHOOSE y \in S : TRUE IN f[x] + SumOver(S \ {x}, f)

RECURSIVE JsonLen(_, _)
\* JSON.stringify(v, null, 2).length for a value nested at indentation ind.
\* Strings of the model hold no character that JSON escapes.
JsonLen(v, ind) ==
  CASE v.t = "null" -> 4
    [] v.t = "undefined" -> 4
    [] v.t = "bool" -> IF v.b THEN 4 ELSE 5
    [] v.t = "num" -> IF v.n < 0 THEN 1 + NumDigits(0 - v.n) ELSE NumDigits(v.n)
    [] v.t = "str" -> 2 + Len(v.s) * v.rep
    [] v.t = "msg" ->
         2 + Len(TruncatedAt) + NumDigits(v.limit)
           + Len(OriginalLength) + NumDigits(v.length)
    [] v.t = "arr" ->
         IF Len(v.a) = 0 THEN 2
         ELSE LET n == Len(v.a)
                  each == [i \in 1..n |-> ind + 2 + JsonLen(v.a[i], ind + 2)]
              IN  2 + SumOver(1..n, each) + 2 * (n - 1) + 1 + ind + 1
    [] v.t = "obj" ->
         LET keys == {k \in DOMAIN v.o : v.o[k].t # "undefined"}
             n == Cardinality(keys)
             each == [k \in keys |->
                        ind + 2 + Len(k) + 4 + JsonLen(v.o[k], ind + 2)]
         IN  IF n = 0 THEN 2
             ELSE 2 + SumOver(keys, each) + 2 * (n - 1) + 1 + ind + 1
    [] OTHER -> 0

\* JSON.stringify(v, null, 2).length
StringifyLen(v) == JsonLen(v, 0)

RECURSIVE Jsonify(_)
\* JSON.parse(JSON.stringify(v)): the value as it reads once serialized.
\* Properties holding undefined are left out, undefined array elements are null.
Jsonify(v) ==
  CASE v.t = "arr" ->
         Arr([i \in 1..Len(v.a) |->
                IF v.a[i].t = "undefined" THEN Null ELSE Jsonify(v.a[i])])
    [] v.t = "obj" ->
         Obj([k \in {x \in DOMAIN v.o : v.o[x].t # "undefined"} |-> Jsonify(v.o[k])])
    [] OTHER -> v

\* ------------------------------------------------------- response shaper
CHARACTER_LIMIT == 25000

truncateResponse_ReturnsPrefix(data, limit) ==
  IF StringifyLen(data) <= limit THEN data
  ELSE [t |-> "frag", of |-> data, upto |-> limit - 100]

truncateResponse_MarkersOnly(data, limit) ==
  LET jsonStringLength == StringifyLen(data)
  IN  IF jsonStringLength <= limit THEN data
      ELSE Obj([_truncated |-> Bool(TRUE),
                _message |-> Message(limit, jsonStringLength)])

truncateResponse(data, limit) ==
  LET jsonStringLength == StringifyLen(data)
  IN  IF jsonStringLength <= limit THEN data
      ELSE Obj(Assign(Spread(data),
                      [_truncated |-> Bool(TRUE),
                       _message |-> Message(limit, jsonStringLength)]))

ConciseFields == {"id", "name", "title", "description", "domain"}

\* const { format = 'json', detail = 'detailed' } = options
DetailOf(options) ==
  IF options.detail = "undefined" THEN "detailed" ELSE options.detail

formatResponse(data, options) ==
  LET detail == DetailOf(options)
      projected ==
        IF detail = "concise" /\ isArray(data)
        THEN Arr([i \in 1..Len(data.a) |->
                    IF isNonNullObject(data.a[i])
                    THEN Obj([k \in ConciseFields |-> Get(data.a[i], k)])
                    ELSE data.a[i]])
        ELSE data
  IN  truncateResponse(projected, CHARACTER_LIMIT)

\* ------------------------------------------- shaper inputs (bounded sets)
\* A string that alone exceeds the character limit once serialized.
LongText == Rep("x", CHARACTER_LIMIT)

\* {"a": <string>} serializes to rep + 13 characters: exactly the limit, and
\* one more.
AtLimit == Obj([a |-> Rep("x", CHARACTER_LIMIT - 13)])

OverLimit == Obj([a |-> Rep("x", CHARACTER_LIMIT - 12)])

ShaperElems ==
  { Null, Num(7), Str("s"), Arr(<<Num(1), Num(2)>>),
    Obj([id |-> Num(1), name |-> Str("n"), title |-> Str("t"),
         description |-> Str("d"), domain |-> Str("x"), extra |-> Str("y")]),
    Obj([name |-> Str("n"), extra |-> Null]),
    Obj([id |-> Null, extra |-> LongText]),
    Obj([id |-> Str("u1"), description |-> LongText]) }

RECURSIVE SeqsUpTo(_, _)
\* All sequences over S of length at most n.
SeqsUpTo(S, n) ==
  IF n = 0 THEN {<<>>}
  ELSE LET shorter == SeqsUpTo(S, n - 1)
       IN  shorter \cup {Append(q, x) : q \in {r \in shorter : Len(r) = n - 1}, x \in S}

ShaperData ==
  { Null, Bool(FALSE), Num(12), Str("plain"), AtLimit, OverLimit,
    Obj([results |-> Arr(<<Obj([id |-> Num(1), extra |-> Str("y")])>>),
         resultSetSize |-> Num(1)]),
    Obj([name |-> Str("A"), description |-> LongText]),
    Obj([_message |-> Str("kept"), body |-> LongText]) }
  \cup {Arr(q) : q \in SeqsUpTo(ShaperElems, MaxItems)}

Formats == {"json", "markdown"}

Details == {"concise", "detailed", "undefined"}

\* Limits truncateResponse is called with: a small one, which short arrays and
\* strings exceed, and the default.
ShaperLimits == {12, CHARACTER_LIMIT}

ShaperIdle ==
  [pc |-> "idle", op |-> "none", data |-> Undef,
   options |-> [format |-> "json", detail |-> "undefined"],
   limit |-> CHARACTER_LIMIT, out |-> Undef]

\* ------------------------------------------------ shaper specification
InitShaper ==
  /\ ALLOWED_DOMAINS = <<>>
  /\ remote = Undef
  /\ inv = <<>>
  /\ \/ \E d \in ShaperData, f \in Formats, dt \in Details :
          shaper = [pc |-> "call", op |-> "formatResponse", data |-> d,
                    options |-> [format |-> f, detail |-> dt],
                    limit |-> CHARACTER_LIMIT, out |-> Undef]
     \/ \E d \in ShaperData \cup {Rep("x", 30)}, l \in ShaperLimits :
          shaper = [pc |-> "call", op |-> "truncateResponse", data |-> d,
                    options |-> [format |-> "json", detail |-> "undefined"],
                    limit |-> l, out |-> Undef]

formatResponse_call ==
  /\ shaper.pc = "call"
  /\ shaper.op = "formatResponse"
  /\ shaper' = [shaper EXCEPT !.pc = "returned",
                              !.out = formatResponse(shaper.data, shaper.options)]
  /\ UNCHANGED <<ALLOWED_DOMAINS, remote, inv>>

truncateResponse_call ==
  /\ shaper.pc = "call"
  /\ shaper.op = "truncateResponse"
  /\ shaper' = [shaper EXCEPT !.pc = "returned",
                              !.out = truncateResponse(shaper.data, shaper.limit)]
  /\ UNCHANGED <<ALLOWED_DOMAINS, remote, inv>>

NextShaper == formatResponse_call \/ truncateResponse_call

SpecShaper == InitShaper /\ [][NextShaper]_vars

ShaperReturned == shaper.pc = "returned"

\* ------------------------------------------------------------ domain guard
\* String.prototype.trim on the allowlist entries of the model.
Trim(s) ==
  CASE s = " data.x.org " -> "data.x.org"
    [] s = " " -> ""
    [] OTHER -> s

\* SOCRATA_DOMAIN split at its commas; <<>> stands for an unset or empty variable.
EnvDomains ==
  { <<>>, <<"data.x.org">>, <<" data.x.org ", "*.z.org">> }

\* process.env.SOCRATA_DOMAIN ? split(',').map(d => d.trim()) : []
AllowedDomainsOf(env) == [k \in 1..Len(env) |-> Trim(env[k])]

\* Array.prototype.includes: strict equality with some element
includes(list, x) == \E k \in 1..Len(list) : list[k] = x

NoError == [kind |-> "none"]

\* toLowerCase on the domains of the model
Lower(s) == IF s = "DATA.X.ORG" THEN "data.x.org" ELSE s

validateDomain_IgnoresCase(domain) ==
  IF Len(ALLOWED_DOMAINS) > 0 /\ ~includes(ALLOWED_DOMAINS, Lower(domain))
  THEN [kind |-> "DomainNotAllowed", domain |-> domain, allowed |-> ALLOWED_DOMAINS]
  ELSE NoError

\* The error validateDomain throws, or NoError when it returns.
validateDomain(domain) ==
  IF Len(ALLOWED_DOMAINS) > 0 /\ ~includes(ALLOWED_DOMAINS, domain)
  THEN [kind |-> "DomainNotAllowed", domain |-> domain, allowed |-> ALLOWED_DOMAINS]
  ELSE NoError

\* ----------------------------------------------------- remote call adapter
Url(domain, api, id) == [domain |-> domain, api |-> api, id |-> id]

\* The request each adapter function hands to fetch.
socrataGet(url) == [method |-> "GET", url |-> url, body |-> Undef]

socrataPost(url, data) == [method |-> "POST", url |-> url, body |-> Jsonify(data)]

socrataPut(url, data) == [method |-> "PUT", url |-> url, body |-> Jsonify(data)]

\* A body that is no JSON text.
NotJson == [t |-> "text", s |-> "<html>"]

ResponseOk_IncludesRedirects(status) == status >= 200 /\ status <= 399

\* response.ok
ResponseOk(status) == status >= 200 /\ status <= 299

\* What the awaited adapter call gives once fetch has settled with reply:
\* fetch rejected, !response.ok, response.json() rejected, or the parsed body.
responseResult(reply) ==
  IF reply.kind = "network"
  THEN [ok |-> FALSE, value |-> Undef, error |-> [kind |-> "TransportError"]]
  ELSE IF ~ResponseOk(reply.status)
  THEN [ok |-> FALSE, value |-> Undef,
        error |-> [kind |-> "RemoteError", status |-> reply.status,
                   statusText |-> reply.statusText, body |-> reply.body]]
  ELSE IF reply.body.t = "text"
  THEN [ok |-> FALSE, value |-> Undef, error |-> [kind |-> "SyntaxError"]]
  ELSE [ok |-> TRUE, value |-> reply.body, error |-> NoError]

\* ------------------------------------------------------ remote platform
AssetId == "abcd-1234"

Viewer == Arr(<<Obj([name |-> Str("viewer"), version |-> Str("all")])>>)

Editor == Arr(<<Obj([name |-> Str("editor"), version |-> Str("all")])>>)

\* The asset held by the remote platform at start: its metadata document and
\* its permission document. Both carry fields the tools know nothing about.
Assets ==
  { [meta |-> Obj([name |-> Str("A"), description |-> Str("d"),
                   tags |-> Arr(<<Str("old")>>), id |-> Str(AssetId),
                   viewCount |-> Num(5)]),
     perms |-> Obj([scope |-> Str("private"),
                    users |-> Arr(<<Obj([id |-> Str("u2"), email |-> Str("e1"),
                                         accessLevels |-> Viewer,
                                         displayName |-> Str("Y")]),
                                    Obj([id |-> Str("u1"), accessLevels |-> Viewer])>>)])],
    [meta |-> Obj([name |-> Str("A"), category |-> Null,
                   owner |-> Obj([id |-> Str("u1")])]),
     perms |-> Obj([scope |-> Str("site"),
                    users |-> Arr(<<Obj([email |-> Str("e1"), accessLevels |-> Viewer]),
                                    Obj([id |-> Str("u1"), email |-> Str("e2"),
                                         accessLevels |-> Viewer])>>)])],
    [meta |-> Obj(NoFields),
     perms |-> Obj([scope |-> Str("public"), inherited |-> Bool(TRUE)])],
    [meta |-> Obj([name |-> Str("A"), description |-> LongText]),
     perms |-> Obj([scope |-> Str("private"), users |-> Arr(<<>>)])] }

\* Bodies the listing endpoints (catalog, users, teams, roles, activity log,
\* workflow context) may answer with.
ReadBodies ==
  { Null,
    Obj([results |-> Arr(<<Obj([resource |-> Obj([id |-> Str(AssetId)])])>>),
         resultSetSize |-> Num(1)]),
    Arr(<<Obj([id |-> Str("u1"), email |-> Str("e1"), roleName |-> Str("admin")]),
          Str("viewer")>>) }

DatasetA ==
  Obj([resource |-> Obj([type |-> Str("dataset"), name |-> Str("Budget"),
                         id |-> Str("aaaa-0001")])])

DatasetB ==
  Obj([classification |-> Obj([domain_category |-> Str("dataset")]),
       name |-> Str("Budget 2"), id |-> Str("bbbb-0002")])

FilterC ==
  Obj([resource |-> Obj([type |-> Str("filter"), name |-> Str("Budget view"),
                         id |-> Str("cccc-0003")])])

\* Bodies the catalog search may answer with.
CatalogBodies ==
  { Obj([resultSetSize |-> Num(0)]),
    Obj([results |-> Arr(<<>>)]),
    Obj([results |-> Arr(<<FilterC>>)]),
    Obj([results |-> Arr(<<Obj([name |-> Str("Budget notes")]), FilterC>>)]),
    Obj([results |-> Arr(<<DatasetA>>)]),
    Obj([results |-> Arr(<<FilterC, DatasetA, DatasetB>>)]) }

\* Bodies the publishing endpoint may answer with.
ScheduleBodies ==
  { Null,
    Obj([cadence |-> Str("Daily"), enabled |-> Bool(TRUE),
         lastRun |-> Str("2024-01-01"), name |-> Str("Budget"),
         fxf |-> Str("aaaa-0001")]),
    Obj([cadence |-> Str("Weekly"), enabled |-> Bool(TRUE), owner |-> LongText]) }

\* The parsed bodies a successful answer to req may carry.
SuccessBodies(req) ==
  CASE req.method # "GET" -> {req.body}
    [] req.url.api = "views" -> {remote.meta}
    [] req.url.api = "permissions" -> {remote.perms}
    [] req.url.api = "catalog/v1?q" -> CatalogBodies
    [] req.url.api = "publishing" -> ScheduleBodies
    [] OTHER -> ReadBodies

\* Every way fetch may settle for req.
RemoteReplies(req) ==
  { [kind |-> "network"],
    [kind |-> "http", status |-> 404, statusText |-> "Not Found",
     body |-> [t |-> "text", s |-> "missing"]],
    [kind |-> "http", status |-> 200, statusText |-> "OK", body |-> NotJson] }
  \cup { [kind |-> "http", status |-> 200, statusText |-> "OK", body |-> b] :
           b \in SuccessBodies(req) }

RemoteAfter_KeepsStoredUsers(req, reply) ==
  IF req.method = "PUT" /\ reply.kind = "http" /\ ResponseOk(reply.status)
  THEN CASE req.url.api = "views" -> [remote EXCEPT !.meta = req.body]
         [] req.url.api = "permissions" ->
              [remote EXCEPT !.perms =
                 Obj(Assign(req.body.o,
                            [users |-> Arr(Get(remote.perms, "users").a
                                           \o SelectSeq(Get(req.body, "users").a,
                                                 LAMBDA g : \A k \in DOMAIN Get(remote.perms, "users").a :
                                                              Get(remote.perms, "users").a[k] # g))]))]
         [] OTHER -> remote
  ELSE remote

\* The remote platform stores the body of a PUT it answers with success.
RemoteAfter(req, reply) ==
  IF req.method = "PUT" /\ reply.kind = "http" /\ ResponseOk(reply.status)
  THEN CASE req.url.api = "views" -> [remote EXCEPT !.meta = req.body]
         [] req.url.api = "permissions" -> [remote EXCEPT !.perms = req.body]
         [] OTHER -> remote
  ELSE remote

\* ------------------------------------------------------------ invocations
Idle ==
  [pc |-> "idle", tool |-> "", args |-> [domain |-> ""], calls |-> <<>>,
   replies |-> <<>>, fetched |-> Undef, work |-> <<>>, results |-> <<>>, result |-> Undef,
   formatted |-> Undef, text |-> Undef, error |-> NoError]

\* The request an invocation is waiting on.
Pending(rec) == rec.calls[Len(rec.calls)]

\* fetch has settled with reply for the request the invocation is waiting on.
Settled(rec, reply) == [rec EXCEPT !.replies = Append(@, reply)]

Thrown_OmitsCause(rec, tool, a, e) ==
  [rec EXCEPT !.pc = "threw", !.tool = tool, !.args = a,
              !.error = [kind |-> "ToolError", tool |-> tool,
                         domain |-> a.domain, cause |-> NoError]]

\* catch (error) { throw new Error(`Failed to ... on ${domain}: ${error.message}`) }
Thrown(rec, tool, a, e) ==
  [rec EXCEPT !.pc = "threw", !.tool = tool, !.args = a,
              !.error = [kind |-> "ToolError", tool |-> tool,
                         domain |-> a.domain, cause |-> e]]

\* await of an adapter call: the request leaves and the handler suspends.
Awaiting(rec, tool, a, req, pc) ==
  [rec EXCEPT !.pc = pc, !.tool = tool, !.args = a, !.calls = Append(@, req)]

\* JSON.stringify(formatted, null, 2), bare or inside the markdown template
Text(format, formatted) ==
  [markdown |-> format = "markdown", json |-> Jsonify(formatted)]

\* return { content: [{ type: "text", text }] }
Returned(rec, result, formatted) ==
  [rec EXCEPT !.pc = "returned", !.result = result, !.formatted = formatted,
              !.text = Text(rec.args.format, formatted)]

\* ------------------------------------------------------------ tool inputs
\* Arguments reach a handler after schema validation: defaults are filled in
\* and an optional argument that was not given is undefined.
Domains == {"data.x.org", "DATA.X.ORG", "data.z.org"}

ReadArgs == [domain : Domains, format : Formats, detail : {"concise", "detailed"}]

\* Tools whose markdown template reads a property of the response itself.
TemplateReadsResponse ==
  { "socrata_get_catalog", "socrata_search_catalog", "socrata_get_metadata",
    "socrata_get_permissions", "socrata_get_workflow_context" }

\* --------------------------------------------------------- read-only tools
ReadToolCall_Posts(i, tool, a, api, helperValidates) ==
  /\ inv[i].pc = "idle"
  /\ LET v == validateDomain(a.domain)
         e == IF v = NoError /\ helperValidates THEN validateDomain(a.domain) ELSE v
     IN  inv' = [inv EXCEPT ![i] =
                   IF e # NoError THEN Thrown(@, tool, a, e)
                   ELSE Awaiting(@, tool, a,
                                 socrataPost(Url(a.domain, api, AssetId), Obj(NoFields)),
                                 "awaitRead")]
  /\ UNCHANGED <<ALLOWED_DOMAINS, remote, shaper>>

\* try { validateDomain(domain); ... await socrataGet(url) : the handler up to
\* its first await. helperValidates: the handler calls a helper that validates
\* the domain again before it fetches.
ReadToolCall(i, tool, a, api, helperValidates) ==
  /\ inv[i].pc = "idle"
  /\ LET v == validateDomain(a.domain)
         e == IF v = NoError /\ helperValidates THEN validateDomain(a.domain) ELSE v
     IN  inv' = [inv EXCEPT ![i] =
                   IF e # NoError THEN Thrown(@, tool, a, e)
                   ELSE Awaiting(@, tool, a,
                                 socrataGet(Url(a.domain, api, AssetId)), "awaitRead")]
  /\ UNCHANGED <<ALLOWED_DOMAINS, remote, shaper>>

catalogGetTool_handler(i, a) ==
  ReadToolCall(i, "socrata_get_catalog", a, "catalog/v1?only", FALSE)

catalogSearchTool_handler(i, a) ==
  ReadToolCall(i, "socrata_search_catalog", a, "catalog/v1", FALSE)

userSearchTool_handler(i, a) ==
  ReadToolCall(i, "socrata_search_users", a, "catalog/v1/users", FALSE)

teamSearchTool_handler(i, a) ==
  ReadToolCall(i, "socrata_search_teams", a, "catalog/v1/teams", FALSE)

userRolesGetTool_handler(i, a) ==
  ReadToolCall(i, "socrata_get_user_roles", a, "catalog/v1/users/roles", FALSE)

assetMetadataGetTool_handler(i, a) ==
  ReadToolCall(i, "socrata_get_metadata", a, "views", FALSE)

assetPermissionsGetTool_handler(i, a) ==
  ReadToolCall(i, "socrata_get_permissions", a, "permissions", FALSE)

activityLogGetTool_handler(i, a) ==
  ReadToolCall(i, "socrata_get_activity_log", a, "catalog/v1/activity_log", TRUE)

workflowContextGetTool_handler(i, a) ==
  ReadToolCall(i, "socrata_get_workflow_context", a, "catalog/v1/workflows", TRUE)

\* The rest of a read-only handler, once its fetch has settled:
\* formatResponse(response, { format, detail }), the template, the return.
ReadToolReturn(i, tool) ==
  /\ inv[i].pc = "awaitRead"
  /\ inv[i].tool = tool
  /\ \E reply \in RemoteReplies(Pending(inv[i])) :
       LET rec == Settled(inv[i], reply)
           a == rec.args
           r == responseResult(reply)
       IN  /\ inv' = [inv EXCEPT ![i] =
                        IF ~r.ok THEN Thrown(rec, tool, a, r.error)
                        ELSE IF /\ a.format = "markdown"
                                /\ tool \in TemplateReadsResponse
                                /\ r.value.t = "null"
                        THEN Thrown(rec, tool, a, [kind |-> "TypeError"])
                        ELSE Returned(rec, r.value,
                                      formatResponse(r.value,
                                        [format |-> a.format, detail |-> a.detail]))]
           /\ remote' = RemoteAfter(Pending(rec), reply)
  /\ UNCHANGED <<ALLOWED_DOMAINS, shaper>>

catalogGetTool_return(i) == ReadToolReturn(i, "socrata_get_catalog")

catalogSearchTool_return(i) == ReadToolReturn(i, "socrata_search_catalog")

userSearchTool_return(i) == ReadToolReturn(i, "socrata_search_users")

teamSearchTool_return(i) == ReadToolReturn(i, "socrata_search_teams")

userRolesGetTool_return(i) == ReadToolReturn(i, "socrata_get_user_roles")

assetMetadataGetTool_return(i) == ReadToolReturn(i, "socrata_get_metadata")

assetPermissionsGetTool_return(i) == ReadToolReturn(i, "socrata_get_permissions")

activityLogGetTool_return(i) == ReadToolReturn(i, "socrata_get_activity_log")

workflowContextGetTool_return(i) == ReadToolReturn(i, "socrata_get_workflow_context")

\* ------------------------------------------------------------ update tools
RolesArgs ==
  [domain : Domains, format : Formats, roles : {Arr(<<Str("admin"), Str("viewer")>>)}]

ContextArgs ==
  [domain : Domains, format : Formats, context : {Obj([status |-> Str("paused")])}]

userRolesUpdateTool_handler_NoGuard(i, a) ==
  /\ inv[i].pc = "idle"
  /\ inv' = [inv EXCEPT ![i] =
               Awaiting(@, "socrata_update_user_roles", a,
                        socrataPut(Url(a.domain, "catalog/v1/users/roles", AssetId),
                                   Obj([roles |-> a.roles])), "awaitPut")]
  /\ UNCHANGED <<ALLOWED_DOMAINS, remote, shaper>>

userRolesUpdateTool_handler(i, a) ==
  /\ inv[i].pc = "idle"
  /\ LET e == validateDomain(a.domain)
     IN  inv' = [inv EXCEPT ![i] =
                   IF e # NoError THEN Thrown(@, "socrata_update_user_roles", a, e)
                   ELSE Awaiting(@, "socrata_update_user_roles", a,
                          socrataPut(Url(a.domain, "catalog/v1/users/roles", AssetId),
                                     Obj([roles |-> a.roles])), "awaitPut")]
  /\ UNCHANGED <<ALLOWED_DOMAINS, remote, shaper>>

workflowContextUpdateTool_handler(i, a) ==
  /\ inv[i].pc = "idle"
  /\ LET v == validateDomain(a.domain)
         \* updateWorkflowContext validates the domain again
         e == IF v = NoError THEN validateDomain(a.domain) ELSE v
     IN  inv' = [inv EXCEPT ![i] =
                   IF e # NoError
                   THEN Thrown(@, "socrata_update_workflow_context", a, e)
                   ELSE Awaiting(@, "socrata_update_workflow_context", a,
                          socrataPut(Url(a.domain, "catalog/v1/workflows", AssetId),
                                     a.context), "awaitPut")]
  /\ UNCHANGED <<ALLOWED_DOMAINS, remote, shaper>>

\* The rest of an updating handler, once its PUT has settled:
\* formatResponse(result, { format }), the template, the return.
UpdateToolReturn(i, tool) ==
  /\ inv[i].pc = "awaitPut"
  /\ inv[i].tool = tool
  /\ \E reply \in RemoteReplies(Pending(inv[i])) :
       LET rec == Settled(inv[i], reply)
           a == rec.args
           r == responseResult(reply)
       IN  /\ inv' = [inv EXCEPT ![i] =
                        IF ~r.ok THEN Thrown(rec, tool, a, r.error)
                        ELSE Returned(rec, r.value,
                                      formatResponse(r.value,
                                        [format |-> a.format, detail |-> "undefined"]))]
           /\ remote' = RemoteAfter(Pending(rec), reply)
  /\ UNCHANGED <<ALLOWED_DOMAINS, shaper>>

userRolesUpdateTool_return(i) == UpdateToolReturn(i, "socrata_update_user_roles")

workflowContextUpdateTool_return(i) ==
  UpdateToolReturn(i, "socrata_update_workflow_context")

assetMetadataUpdateTool_return(i) == UpdateToolReturn(i, "socrata_update_metadata")

assetPermissionsUpdateTool_return(i) ==
  UpdateToolReturn(i, "socrata_update_permissions")

\* ------------------------------------------------------------ merge engine
MetadataFields ==
  {"name", "description", "tags", "category", "attribution", "license"}

MetadataPatches ==
  { [name |-> Undef, description |-> Undef, tags |-> Undef, category |-> Undef,
     attribution |-> Undef, license |-> Undef],
    [name |-> Str("B"), description |-> Undef, tags |-> Undef, category |-> Undef,
     attribution |-> Undef, license |-> Undef],
    [name |-> Str(""), description |-> Str("d2"), tags |-> Undef,
     category |-> Undef, attribution |-> Undef, license |-> Undef],
    [name |-> Undef, description |-> Undef, tags |-> Arr(<<Str("t1"), Str("t2")>>),
     category |-> Str("c"), attribution |-> Str("city"), license |-> Str("MIT")] }

MetadataArgs ==
  { [domain |-> d, format |-> f, name |-> p.name, description |-> p.description,
     tags |-> p.tags, category |-> p.category, attribution |-> p.attribution,
     license |-> p.license] : d \in Domains, f \in Formats, p \in MetadataPatches }

IncomingUsers ==
  { Undef,
    Arr(<<>>),
    Arr(<<Obj([id |-> Str("u1"), accessLevels |-> Editor])>>),
    Arr(<<Obj([id |-> Str("u1"), email |-> Str("e1"), accessLevels |-> Editor])>>),
    Arr(<<Obj([email |-> Str("e1"), accessLevels |-> Editor])>>),
    Arr(<<Obj([id |-> Str("u3"), accessLevels |-> Editor]),
          Obj([id |-> Str("u3"), email |-> Str("e3"), accessLevels |-> Viewer])>>),
    Arr(<<Obj([accessLevels |-> Editor])>>),
    Arr(<<Obj([id |-> Str("u1"), accessLevels |-> Editor]),
          Obj([email |-> Str("e9"), accessLevels |-> Editor])>>) }

PermissionsArgs ==
  [domain : Domains, format : Formats, scope : {Undef, Str("public")},
   users : IncomingUsers, replaceUsers : BOOLEAN]

mergeMetadata_AppendsTags(currentMetadata, a) ==
  LET merged == Assign(Spread(currentMetadata),
                       [k \in {f \in MetadataFields : a[f] # Undef} |-> a[k]])
  IN  Obj(IF a.tags # Undef /\ IsArr(Get(currentMetadata, "tags"))
          THEN Assign(merged, [tags |-> Arr(Get(currentMetadata, "tags").a \o a.tags.a)])
          ELSE merged)

mergeMetadata_SkipsFalsy(currentMetadata, a) ==
  Obj(Assign(Spread(currentMetadata),
             [k \in {f \in MetadataFields : Truthy(a[f])} |-> a[k]]))

\* const updatedMetadata = { ...currentMetadata };
\* if (name !== undefined) updatedMetadata.name = name; ... (six fields)
mergeMetadata(currentMetadata, a) ==
  Obj(Assign(Spread(currentMetadata),
             [k \in {f \in MetadataFields : a[f] # Undef} |-> a[k]]))

userMatches_NoPresenceCheck(newUser, u) ==
  \/ Get(u, "id") = Get(newUser, "id")
  \/ Get(u, "email") = Get(newUser, "email")

\* (newUser.id && u.id === newUser.id) || (newUser.email && u.email === newUser.email)
userMatches(newUser, u) ==
  \/ Truthy(Get(newUser, "id")) /\ Get(u, "id") = Get(newUser, "id")
  \/ Truthy(Get(newUser, "email")) /\ Get(u, "email") = Get(newUser, "email")

findIndex_LastMatch(existingUsers, newUser) ==
  LET hits == {j \in 1..Len(existingUsers) : userMatches(newUser, existingUsers[j])}
  IN  IF hits = {} THEN 0 ELSE CHOOSE j \in hits : \A h \in hits : j >= h

\* existingUsers.findIndex(...) + 1: the first matching position, 0 for none
findIndex(existingUsers, newUser) ==
  LET hits == {j \in 1..Len(existingUsers) : userMatches(newUser, existingUsers[j])}
  IN  IF hits = {} THEN 0 ELSE CHOOSE j \in hits : \A h \in hits : j <= h

RECURSIVE upsertLoop(_, _, _, _)
\* for (const newUser of users) { ... } from the k-th incoming grant on
upsertLoop(existingUsers, updatedUsers, users, k) ==
  IF k > Len(users) THEN updatedUsers
  ELSE LET newUser == users[k]
           existingIndex == findIndex(existingUsers, newUser)
       IN  upsertLoop(existingUsers,
             IF existingIndex >= 1
             THEN [updatedUsers EXCEPT ![existingIndex] =
                     Obj(Assign(Spread(@), Spread(newUser)))]
             ELSE Append(updatedUsers, newUser),
             users, k + 1)

\* updatedPermissions.users || []
existingUsersOf(updatedPermissions) ==
  IF Truthy(Get(Obj(updatedPermissions), "users"))
  THEN updatedPermissions["users"].a ELSE <<>>

mergePermissions_ReplaceClears(currentPermissions, a) ==
  LET copied == Spread(currentPermissions)
      scoped == IF Truthy(a.scope) THEN Assign(copied, [scope |-> a.scope]) ELSE copied
  IN  IF Truthy(a.users)
      THEN IF a.replaceUsers THEN Obj(Assign(scoped, [users |-> a.users]))
           ELSE Obj(Assign(scoped,
                  [users |-> Arr(upsertLoop(existingUsersOf(scoped),
                                            existingUsersOf(scoped), a.users.a, 1))]))
      ELSE IF a.replaceUsers THEN Obj(Assign(scoped, [users |-> Arr(<<>>)]))
      ELSE Obj(scoped)

mergePermissions_KeepsOnEmpty(currentPermissions, a) ==
  LET copied == Spread(currentPermissions)
      scoped == IF Truthy(a.scope) THEN Assign(copied, [scope |-> a.scope]) ELSE copied
  IN  IF Truthy(a.users) /\ Len(a.users.a) > 0
      THEN IF a.replaceUsers THEN Obj(Assign(scoped, [users |-> a.users]))
           ELSE Obj(Assign(scoped,
                  [users |-> Arr(upsertLoop(existingUsersOf(scoped),
                                            existingUsersOf(scoped), a.users.a, 1))]))
      ELSE Obj(scoped)

\* const updatedPermissions = { ...currentPermissions };
\* if (scope) ...; if (users) { if (replaceUsers) ... else ...merge... }
mergePermissions(currentPermissions, a) ==
  LET copied == Spread(currentPermissions)
      scoped == IF Truthy(a.scope) THEN Assign(copied, [scope |-> a.scope]) ELSE copied
  IN  IF Truthy(a.users)
      THEN IF a.replaceUsers THEN Obj(Assign(scoped, [users |-> a.users]))
           ELSE Obj(Assign(scoped,
                  [users |-> Arr(upsertLoop(existingUsersOf(scoped),
                                            existingUsersOf(scoped), a.users.a, 1))]))
      ELSE Obj(scoped)

assetPermissionsUpdateTool_handler_Locks(i, a) ==
  /\ inv[i].pc = "idle"
  /\ LET e == IF \E j \in DOMAIN inv : j # i /\ inv[j].pc \in {"awaitCurrent", "awaitPut"}
              THEN [kind |-> "Busy"]
              ELSE validateDomain(a.domain)
     IN  inv' = [inv EXCEPT ![i] =
                   IF e # NoError THEN Thrown(@, "socrata_update_permissions", a, e)
                   ELSE Awaiting(@, "socrata_update_permissions", a,
                          socrataGet(Url(a.domain, "permissions", AssetId)),
                          "awaitCurrent")]
  /\ UNCHANGED <<ALLOWED_DOMAINS, remote, shaper>>

\* try { validateDomain(domain); ... await socrataGet(currentUrl)
assetMetadataUpdateTool_handler(i, a) ==
  /\ inv[i].pc = "idle"
  /\ LET e == validateDomain(a.domain)
     IN  inv' = [inv EXCEPT ![i] =
                   IF e # NoError THEN Thrown(@, "socrata_update_metadata", a, e)
                   ELSE Awaiting(@, "socrata_update_metadata", a,
                          socrataGet(Url(a.domain, "views", AssetId)), "awaitCurrent")]
  /\ UNCHANGED <<ALLOWED_DOMAINS, remote, shaper>>

assetPermissionsUpdateTool_handler(i, a) ==
  /\ inv[i].pc = "idle"
  /\ LET e == validateDomain(a.domain)
     IN  inv' = [inv EXCEPT ![i] =
                   IF e # NoError THEN Thrown(@, "socrata_update_permissions", a, e)
                   ELSE Awaiting(@, "socrata_update_permissions", a,
                          socrataGet(Url(a.domain, "permissions", AssetId)),
                          "awaitCurrent")]
  /\ UNCHANGED <<ALLOWED_DOMAINS, remote, shaper>>

AfterCurrent_RetriesGet(rec, r, merged) ==
  IF ~r.ok
  THEN Awaiting(rec, rec.tool, rec.args, socrataGet(Pending(rec).url), "awaitCurrent")
  ELSE Awaiting([rec EXCEPT !.fetched = r.value], rec.tool, rec.args,
                socrataPut(Pending(rec).url, merged), "awaitPut")

AfterCurrent_IgnoresFailure(rec, r, merged) ==
  Awaiting([rec EXCEPT !.fetched = r.value], rec.tool, rec.args,
           socrataPut(Pending(rec).url, merged), "awaitPut")

\* const current = await socrataGet(getUrl); ...merge...;
\* await socrataPut(updateUrl, merged): a failed GET leaves the try block.
AfterCurrent(rec, r, merged) ==
  IF ~r.ok THEN Thrown(rec, rec.tool, rec.args, r.error)
  ELSE Awaiting([rec EXCEPT !.fetched = r.value], rec.tool, rec.args,
                socrataPut(Pending(rec).url, merged), "awaitPut")

\* update-metadata once the GET of the current document has settled
assetMetadataUpdateTool_merge(i) ==
  /\ inv[i].pc = "awaitCurrent"
  /\ inv[i].tool = "socrata_update_metadata"
  /\ \E reply \in RemoteReplies(Pending(inv[i])) :
       LET rec == Settled(inv[i], reply)
           r == responseResult(reply)
       IN  /\ inv' = [inv EXCEPT ![i] =
                        AfterCurrent(rec, r, mergeMetadata(r.value, rec.args))]
           /\ remote' = RemoteAfter(Pending(rec), reply)
  /\ UNCHANGED <<ALLOWED_DOMAINS, shaper>>

\* update-permissions once the GET of the current document has settled
assetPermissionsUpdateTool_merge(i) ==
  /\ inv[i].pc = "awaitCurrent"
  /\ inv[i].tool = "socrata_update_permissions"
  /\ \E reply \in RemoteReplies(Pending(inv[i])) :
       LET rec == Settled(inv[i], reply)
           r == responseResult(reply)
       IN  /\ inv' = [inv EXCEPT ![i] =
                        AfterCurrent(rec, r, mergePermissions(r.value, rec.args))]
           /\ remote' = RemoteAfter(Pending(rec), reply)
  /\ UNCHANGED <<ALLOWED_DOMAINS, shaper>>

\* ------------------------------------------------------ publishing schedule
ScheduleArgs ==
  [domain : Domains, format : Formats, detail : {"concise", "detailed"},
   fxf : {Undef, Str(""), Str("aaaa-0001")}, assetName : {Undef, Str("Budget")}]

\* a || b
Or(a, b) == IF Truthy(a) THEN a ELSE b

\* `${v}` inside a URL
Interpolate(v) == IF v.t = "str" THEN v.s ELSE "undefined"

\* String.prototype.toLowerCase on the cadences of the model
toLowerCase(s) == IF s = "Daily" THEN "daily" ELSE s

\* new Date(s).toLocaleDateString() on the dates of the model (en-US)
toLocaleDateString(s) == IF s = "2024-01-01" THEN "1/1/2024" ELSE "Invalid Date"

\* The schedule handed in always carries a cadence that is a string.
generateScheduleSummary(schedule) ==
  LET cadence == Get(schedule, "cadence")
      lastRun == Get(schedule, "lastRun")
      nextRun == Get(schedule, "nextRun")
  IN  IF ~Truthy(Get(schedule, "enabled")) \/ cadence = Str("Manual/None")
      THEN Str("Dataset is updated manually - no automated publishing schedule")
      ELSE IF Truthy(cadence) /\ cadence # Str("Manual/None")
      THEN Str("Updates " \o toLowerCase(cadence.s) \o ", last updated: "
               \o (IF Truthy(lastRun) THEN toLocaleDateString(lastRun.s)
                   ELSE "Unknown")
               \o ", next update: "
               \o (IF Truthy(nextRun) THEN toLocaleDateString(nextRun.s)
                   ELSE "Not scheduled"))
      ELSE Str("Schedule information available but status unclear")

formatScheduleResponse(scheduleData, assetInfo) ==
  IF ~Truthy(scheduleData)
  THEN Obj([dataset |-> Or(assetInfo, Obj([name |-> Str("Unknown"),
                                           fxf |-> Str("Unknown")])),
            schedule |-> Null,
            error |-> Str("No schedule data available - dataset may not have automated publishing")])
  ELSE LET schedule ==
             Obj([cadence |-> Or(Get(scheduleData, "cadence"), Str("Manual/None")),
                  status |-> Or(Get(scheduleData, "status"), Str("Unknown")),
                  enabled |-> Or(Get(scheduleData, "enabled"), Bool(FALSE)),
                  lastRun |-> Or(Get(scheduleData, "lastRun"), Null),
                  nextRun |-> Or(Get(scheduleData, "nextRun"), Null),
                  rowCount |-> Or(Get(scheduleData, "rowCount"), Num(0)),
                  owner |-> Or(Get(scheduleData, "owner"), Str("Unknown")),
                  frequency |-> Or(Get(scheduleData, "frequency"), Null),
                  timezone |-> Or(Get(scheduleData, "timezone"), Null)])
       IN  Obj([dataset |-> Or(assetInfo,
                               Obj([name |-> Or(Get(scheduleData, "name"), Str("Unknown")),
                                    fxf |-> Or(Get(scheduleData, "fxf"), Str("Unknown"))])),
                schedule |-> schedule,
                summary |-> generateScheduleSummary(schedule)])

\* error.message of what an adapter call throws
ErrorMessage(e) ==
  CASE e.kind = "RemoteError" ->
         "Socrata API error (" \o IndexKey(e.status) \o "): " \o e.statusText
           \o " - " \o e.body.s
    [] e.kind = "TransportError" -> "fetch failed"
    [] e.kind = "SyntaxError" -> "Unexpected token < in JSON at position 0"
    [] OTHER -> e.kind

\* const url = ...publishing/v1/revision/datasets/${fxf}; socrataGet(url)
getSchedule(domain, fxf) == socrataGet(Url(domain, "publishing", Interpolate(fxf)))

\* const url = ...catalog/v1?domains=${domain}&q=${query}; socrataGet(url)
searchCatalog(domain, query) == socrataGet(Url(domain, "catalog/v1?q", Interpolate(query)))

\* asset.resource?.name || asset.name, asset.resource?.id || asset.id
assetInfoOf(asset) ==
  Obj([name |-> Or(Get(Get(asset, "resource"), "name"), Get(asset, "name")),
       fxf |-> Or(Get(Get(asset, "resource"), "id"), Get(asset, "id"))])

isDatasetAsset_AcceptsAll(asset) == TRUE

\* asset.resource?.type === 'dataset' ||
\* asset.classification?.domain_category === 'dataset'
isDatasetAsset(asset) ==
  \/ Get(Get(asset, "resource"), "type") = Str("dataset")
  \/ Get(Get(asset, "classification"), "domain_category") = Str("dataset")

publishingScheduleGetTool_handler_NoPrecheck(i, a) ==
  /\ inv[i].pc = "idle"
  /\ LET tool == "socrata_get_schedule"
         e == validateDomain(a.domain)
     IN  inv' = [inv EXCEPT ![i] =
                   IF e # NoError THEN Thrown(@, tool, a, e)
                   ELSE IF Truthy(a.fxf)
                   THEN Awaiting(@, tool, a, getSchedule(a.domain, a.fxf),
                                 "awaitDirect")
                   ELSE IF Truthy(a.assetName)
                   THEN Awaiting(@, tool, a, searchCatalog(a.domain, a.assetName),
                                 "awaitCatalog")
                   ELSE Thrown(@, tool, a, [kind |-> "ImplementationError"])]
  /\ UNCHANGED <<ALLOWED_DOMAINS, remote, shaper>>

publishingScheduleGetTool_handler_NameWins(i, a) ==
  /\ inv[i].pc = "idle"
  /\ LET tool == "socrata_get_schedule"
         v == validateDomain(a.domain)
         e == IF ~Truthy(a.fxf) /\ ~Truthy(a.assetName)
              THEN [kind |-> "InvalidArguments"]
              ELSE v
     IN  inv' = [inv EXCEPT ![i] =
                   IF e # NoError THEN Thrown(@, tool, a, e)
                   ELSE IF Truthy(a.assetName)
                   THEN Awaiting(@, tool, a, searchCatalog(a.domain, a.assetName),
                                 "awaitCatalog")
                   ELSE Awaiting(@, tool, a, getSchedule(a.domain, a.fxf),
                                 "awaitDirect")]
  /\ UNCHANGED <<ALLOWED_DOMAINS, remote, shaper>>

\* try { if (!fxf && !assetName) throw ...; validateDomain(domain);
\*       if (fxf) await getSchedule(...); if (assetName) await searchCatalog(...);
\*       throw new Error("Implementation error: ...")
publishingScheduleGetTool_handler(i, a) ==
  /\ inv[i].pc = "idle"
  /\ LET tool == "socrata_get_schedule"
         v == validateDomain(a.domain)
         \* getSchedule and searchCatalog validate the domain again
         e == IF ~Truthy(a.fxf) /\ ~Truthy(a.assetName)
              THEN [kind |-> "InvalidArguments"]
              ELSE IF v = NoError THEN validateDomain(a.domain) ELSE v
     IN  inv' = [inv EXCEPT ![i] =
                   IF e # NoError THEN Thrown(@, tool, a, e)
                   ELSE IF Truthy(a.fxf)
                   THEN Awaiting(@, tool, a, getSchedule(a.domain, a.fxf),
                                 "awaitDirect")
                   ELSE IF Truthy(a.assetName)
                   THEN Awaiting(@, tool, a, searchCatalog(a.domain, a.assetName),
                                 "awaitCatalog")
                   ELSE Thrown(@, tool, a, [kind |-> "ImplementationError"])]
  /\ UNCHANGED <<ALLOWED_DOMAINS, remote, shaper>>

\* Direct mode once getSchedule has settled: formatScheduleResponse(scheduleData)
\* goes into the text as it is.
publishingScheduleGetTool_direct(i) ==
  /\ inv[i].pc = "awaitDirect"
  /\ \E reply \in RemoteReplies(Pending(inv[i])) :
       LET rec == Settled(inv[i], reply)
           r == responseResult(reply)
       IN  /\ inv' = [inv EXCEPT ![i] =
                        IF ~r.ok THEN Thrown(rec, rec.tool, rec.args, r.error)
                        ELSE Returned(rec, r.value,
                                      formatScheduleResponse(r.value, Undef))]
           /\ remote' = RemoteAfter(Pending(rec), reply)
  /\ UNCHANGED <<ALLOWED_DOMAINS, shaper>>

\* Search mode once searchCatalog has settled: response.results || [], the
\* two not-found errors, the dataset filter, the first getSchedule of the loop.
publishingScheduleGetTool_search(i) ==
  /\ inv[i].pc = "awaitCatalog"
  /\ \E reply \in RemoteReplies(Pending(inv[i])) :
       LET rec == Settled(inv[i], reply)
           a == rec.args
           r == responseResult(reply)
           catalogResponse == Or(Get(r.value, "results"), Arr(<<>>)).a
           datasetAssets == SelectSeq(catalogResponse, isDatasetAsset)
           assetType ==
             Or(Get(Get(catalogResponse[1], "resource"), "type"),
                Or(Get(Get(catalogResponse[1], "classification"), "domain_category"),
                   Str("asset")))
       IN  /\ inv' = [inv EXCEPT ![i] =
                        IF ~r.ok THEN Thrown(rec, rec.tool, a, r.error)
                        ELSE IF r.value.t = "null"
                        THEN Thrown(rec, rec.tool, a, [kind |-> "TypeError"])
                        ELSE IF Len(catalogResponse) = 0
                        THEN Thrown(rec, rec.tool, a,
                                    [kind |-> "NotFound", assetName |-> a.assetName])
                        ELSE IF Len(datasetAssets) = 0
                        THEN Thrown(rec, rec.tool, a,
                                    [kind |-> "NotFound", assetName |-> a.assetName,
                                     assetType |-> assetType])
                        ELSE Awaiting([rec EXCEPT !.fetched = r.value,
                                                  !.work = datasetAssets],
                                      rec.tool, a,
                                      getSchedule(a.domain,
                                                  Get(assetInfoOf(datasetAssets[1]), "fxf")),
                                      "awaitItem")]
           /\ remote' = RemoteAfter(Pending(rec), reply)
  /\ UNCHANGED <<ALLOWED_DOMAINS, shaper>>

unwrapSingle_AlwaysList(scheduleResults) == Arr(scheduleResults)

\* scheduleResults.length === 1 ? scheduleResults[0] : scheduleResults
unwrapSingle(scheduleResults) ==
  IF Len(scheduleResults) = 1 THEN scheduleResults[1] ELSE Arr(scheduleResults)

\* The body of the loop: try { ...formatScheduleResponse(scheduleData, { name,
\* fxf }) } catch (error) { { dataset, schedule: null, error } }
scheduleEntry(r, asset) ==
  IF r.ok THEN formatScheduleResponse(r.value, assetInfoOf(asset))
  ELSE Obj([dataset |-> assetInfoOf(asset),
            schedule |-> Null,
            error |-> Str("Unable to fetch schedule: " \o ErrorMessage(r.error))])

AfterItem_StopsAfterFirst(rec, r) ==
  LET a == rec.args
      scheduleResults == Append(rec.results, scheduleEntry(r, Head(rec.work)))
      result == unwrapSingle(scheduleResults)
      pushed == [rec EXCEPT !.results = scheduleResults, !.work = <<>>]
  IN  Returned(pushed, result,
               formatResponse(result, [format |-> a.format, detail |-> a.detail]))

AfterItem_AbortsOnFailure(rec, r) ==
  LET a == rec.args
      scheduleResults == Append(rec.results, scheduleEntry(r, Head(rec.work)))
      rest == Tail(rec.work)
      result == unwrapSingle(scheduleResults)
      pushed == [rec EXCEPT !.results = scheduleResults, !.work = rest]
  IN  IF ~r.ok THEN Thrown(rec, rec.tool, a, r.error)
      ELSE IF Len(rest) > 0
      THEN Awaiting(pushed, rec.tool, a,
                    getSchedule(a.domain, Get(assetInfoOf(rest[1]), "fxf")),
                    "awaitItem")
      ELSE Returned(pushed, result,
                    formatResponse(result, [format |-> a.format, detail |-> a.detail]))

\* One turn of the loop once its getSchedule has settled with r: the entry is
\* pushed; then the next getSchedule, or after the last one the unwrapping,
\* formatResponse(result, { format, detail }) and the return.
AfterItem(rec, r) ==
  LET a == rec.args
      scheduleResults == Append(rec.results, scheduleEntry(r, Head(rec.work)))
      rest == Tail(rec.work)
      result == unwrapSingle(scheduleResults)
      pushed == [rec EXCEPT !.results = scheduleResults, !.work = rest]
  IN  IF Len(rest) > 0
      THEN Awaiting(pushed, rec.tool, a,
                    getSchedule(a.domain, Get(assetInfoOf(rest[1]), "fxf")),
                    "awaitItem")
      ELSE Returned(pushed, result,
                    formatResponse(result, [format |-> a.format, detail |-> a.detail]))

publishingScheduleGetTool_item(i) ==
  /\ inv[i].pc = "awaitItem"
  /\ \E reply \in RemoteReplies(Pending(inv[i])) :
       LET rec == Settled(inv[i], reply)
           r == responseResult(reply)
       IN  /\ inv' = [inv EXCEPT ![i] = AfterItem(rec, r)]
           /\ remote' = RemoteAfter(Pending(rec), reply)
  /\ UNCHANGED <<ALLOWED_DOMAINS, shaper>>

\* ------------------------------------------------------- the tool server
\* One invocation per behaviour; the handlers keep no state between calls.
Invocations == {1}

Init ==
  /\ \E env \in EnvDomains : ALLOWED_DOMAINS = AllowedDomainsOf(env)
  /\ remote \in Assets
  /\ inv = [i \in Invocations |-> Idle]
  /\ shaper = ShaperIdle

Next ==
  \E i \in Invocations :
    \/ \E a \in ReadArgs : catalogGetTool_handler(i, a)
    \/ \E a \in ReadArgs : catalogSearchTool_handler(i, a)
    \/ \E a \in ReadArgs : userSearchTool_handler(i, a)
    \/ \E a \in ReadArgs : teamSearchTool_handler(i, a)
    \/ \E a \in ReadArgs : userRolesGetTool_handler(i, a)
    \/ \E a \in ReadArgs : assetMetadataGetTool_handler(i, a)
    \/ \E a \in ReadArgs : assetPermissionsGetTool_handler(i, a)
    \/ \E a \in ReadArgs : activityLogGetTool_handler(i, a)
    \/ \E a \in ReadArgs : workflowContextGetTool_handler(i, a)
    \/ \E a \in ScheduleArgs : publishingScheduleGetTool_handler(i, a)
    \/ \E a \in RolesArgs : userRolesUpdateTool_handler(i, a)
    \/ \E a \in ContextArgs : workflowContextUpdateTool_handler(i, a)
    \/ \E a \in MetadataArgs : assetMetadataUpdateTool_handler(i, a)
    \/ \E a \in PermissionsArgs : assetPermissionsUpdateTool_handler(i, a)
    \/ catalogGetTool_return(i)
    \/ catalogSearchTool_return(i)
    \/ userSearchTool_return(i)
    \/ teamSearchTool_return(i)
    \/ userRolesGetTool_return(i)
    \/ assetMetadataGetTool_return(i)
    \/ assetPermissionsGetTool_return(i)
    \/ activityLogGetTool_return(i)
    \/ workflowContextGetTool_return(i)
    \/ publishingScheduleGetTool_direct(i)
    \/ publishingScheduleGetTool_search(i)
    \/ publishingScheduleGetTool_item(i)
    \/ userRolesUpdateTool_return(i)
    \/ workflowContextUpdateTool_return(i)
    \/ assetMetadataUpdateTool_merge(i)
    \/ assetPermissionsUpdateTool_merge(i)
    \/ assetMetadataUpdateTool_return(i)
    \/ assetPermissionsUpdateTool_return(i)

Spec == Init /\ [][Next]_vars

\* ------------------------------------------------- adapter specification
\* The adapter functions on their own: one call, settled by every kind of
\* response.
AdapterData == {Obj([roles |-> Arr(<<Str("admin")>>)]), Arr(<<>>)}

AdapterRequests ==
  {socrataGet(Url("data.x.org", api, AssetId)) : api \in {"views", "permissions"}}
  \cup {socrataPost(Url("data.x.org", "views", AssetId), d) : d \in AdapterData}
  \cup {socrataPut(Url("data.x.org", "views", AssetId), d) : d \in AdapterData}

AdapterStatuses == {200, 201, 204, 299, 300, 304, 400, 404, 500, 503}

\* response.statusText
StatusTextOf(status) ==
  CASE status = 200 -> "OK"
    [] status = 201 -> "Created"
    [] status = 204 -> "No Content"
    [] status = 304 -> "Not Modified"
    [] status = 400 -> "Bad Request"
    [] status = 404 -> "Not Found"
    [] status = 500 -> "Internal Server Error"
    [] OTHER -> ""

\* Response bodies: no JSON text, nothing at all, and JSON texts.
AdapterBodies ==
  { NotJson, [t |-> "text", s |-> ""], Null,
    Obj([error |-> Bool(TRUE), message |-> Str("denied")]),
    Arr(<<Obj([id |-> Str("u1")])>>) }

AdapterReplies ==
  { [kind |-> "network"] }
  \cup { [kind |-> "http", status |-> st, statusText |-> StatusTextOf(st), body |-> b] :
           st \in AdapterStatuses, b \in AdapterBodies }

InitAdapter ==
  /\ ALLOWED_DOMAINS = <<>>
  /\ remote = Undef
  /\ shaper = ShaperIdle
  /\ \E req \in AdapterRequests :
       inv = <<Awaiting(Idle, "adapter", [domain |-> req.url.domain], req, "awaitFetch")>>

\* The adapter function once fetch has settled: it throws or returns.
AdapterSettle(i, method) ==
  /\ inv[i].pc = "awaitFetch"
  /\ Pending(inv[i]).method = method
  /\ \E reply \in AdapterReplies :
       LET rec == Settled(inv[i], reply)
           r == responseResult(reply)
       IN  inv' = [inv EXCEPT ![i] =
                     [rec EXCEPT !.pc = IF r.ok THEN "returned" ELSE "threw",
                                 !.result = r.value,
                                 !.error = r.error]]
  /\ UNCHANGED <<ALLOWED_DOMAINS, remote, shaper>>

socrataGet_settle == AdapterSettle(1, "GET")

socrataPost_settle == AdapterSettle(1, "POST")

socrataPut_settle == AdapterSettle(1, "PUT")

NextAdapter == socrataGet_settle \/ socrataPost_settle \/ socrataPut_settle

SpecAdapter == InitAdapter /\ [][NextAdapter]_vars

\* ---------------------------------------------- concurrent invocations
\* Two invocations against the same asset, interleaved at their awaits: the
\* runtime runs a handler until its next await and then any handler that has
\* an answer waiting.
RaceInvocations == {1, 2}

RaceAllowed == <<"data.x.org">>

GrantU3 == Obj([id |-> Str("u3"), accessLevels |-> Editor])

GrantU4 == Obj([id |-> Str("u4"), email |-> Str("e4"), accessLevels |-> Viewer])

RacePermissionsArgs ==
  [domain : {"data.x.org", "data.z.org"}, format : {"json"}, scope : {Undef},
   users : {Arr(<<GrantU3>>), Arr(<<GrantU4>>)}, replaceUsers : {FALSE}]

RaceReadArgs == [domain : {"data.x.org"}, format : {"json"}, detail : {"detailed"}]

\* The other tools, called on the permitted domain.
RaceArgs(S) == {a \in S : a.domain = "data.x.org" /\ a.format = "json"}

RaceScheduleArgs == {a \in RaceArgs(ScheduleArgs) : a.detail = "detailed"}

RaceMetadataArgs ==
  {a \in RaceArgs(MetadataArgs) : a.name = Str("B")}

InitRace ==
  /\ ALLOWED_DOMAINS = RaceAllowed
  /\ remote \in {x \in Assets : IsArr(Get(x.perms, "users")) /\ Len(Get(x.perms, "users").a) = 2}
  /\ inv = [i \in RaceInvocations |-> Idle]
  /\ shaper = ShaperIdle

NextRace ==
  \E i \in RaceInvocations :
    \/ \E a \in RaceReadArgs : catalogGetTool_handler(i, a)
    \/ \E a \in RaceReadArgs : catalogSearchTool_handler(i, a)
    \/ \E a \in RaceReadArgs : userSearchTool_handler(i, a)
    \/ \E a \in RaceReadArgs : teamSearchTool_handler(i, a)
    \/ \E a \in RaceReadArgs : userRolesGetTool_handler(i, a)
    \/ \E a \in RaceReadArgs : assetMetadataGetTool_handler(i, a)
    \/ \E a \in RaceReadArgs : assetPermissionsGetTool_handler(i, a)
    \/ \E a \in RaceReadArgs : activityLogGetTool_handler(i, a)
    \/ \E a \in RaceReadArgs : workflowContextGetTool_handler(i, a)
    \/ \E a \in RaceScheduleArgs : publishingScheduleGetTool_handler(i, a)
    \/ \E a \in RaceArgs(RolesArgs) : userRolesUpdateTool_handler(i, a)
    \/ \E a \in RaceArgs(ContextArgs) : workflowContextUpdateTool_handler(i, a)
    \/ \E a \in RaceMetadataArgs : assetMetadataUpdateTool_handler(i, a)
    \/ \E a \in RacePermissionsArgs : assetPermissionsUpdateTool_handler(i, a)
    \/ catalogGetTool_return(i)
    \/ catalogSearchTool_return(i)
    \/ userSearchTool_return(i)
    \/ teamSearchTool_return(i)
    \/ userRolesGetTool_return(i)
    \/ assetMetadataGetTool_return(i)
    \/ assetPermissionsGetTool_return(i)
    \/ activityLogGetTool_return(i)
    \/ workflowContextGetTool_return(i)
    \/ publishingScheduleGetTool_direct(i)
    \/ publishingScheduleGetTool_search(i)
    \/ publishingScheduleGetTool_item(i)
    \/ userRolesUpdateTool_return(i)
    \/ workflowContextUpdateTool_return(i)
    \/ assetMetadataUpdateTool_merge(i)
    \/ assetPermissionsUpdateTool_merge(i)
    \/ assetMetadataUpdateTool_return(i)
    \/ assetPermissionsUpdateTool_return(i)

SpecRace == InitRace /\ [][NextRace]_vars

\* ------------------------------------------------- upsert specification
\* update-permissions from the point where the GET of the current document
\* is in flight, over every small users list the remote may hold and every
\* small patch.
ExistingGrants ==
  { Obj([id |-> Str("u1"), accessLevels |-> Viewer]),
    Obj([email |-> Str("e1"), accessLevels |-> Viewer]),
    Obj([id |-> Str("u2"), email |-> Str("e1"), accessLevels |-> Viewer]),
    Obj([id |-> Str("u1"), email |-> Str("e2"), displayName |-> Str("Y")]),
    Obj([accessLevels |-> Viewer]) }

IncomingGrants ==
  { Obj([id |-> Str("u1"), accessLevels |-> Editor]),
    Obj([email |-> Str("e1"), accessLevels |-> Editor]),
    Obj([id |-> Str("u1"), email |-> Str("e1"), accessLevels |-> Editor]),
    Obj([id |-> Str("u3"), accessLevels |-> Editor]),
    Obj([id |-> Str("u3"), email |-> Str("e3"), accessLevels |-> Viewer]),
    Obj([accessLevels |-> Editor]) }

UpsertDocs ==
  { Obj([scope |-> Str("site"), inherited |-> Bool(TRUE)]),
    Obj([users |-> Null]) }
  \cup { Obj([scope |-> Str("private"), users |-> Arr(q)]) :
           q \in SeqsUpTo(ExistingGrants, 2) }

UpsertArgs ==
  { [domain |-> "data.x.org", format |-> "json", scope |-> Undef,
     users |-> Arr(q), replaceUsers |-> FALSE] : q \in SeqsUpTo(IncomingGrants, MaxItems) }
  \cup [domain : {"data.x.org"}, format : {"json"}, scope : {Undef, Str("public")},
        users : {Undef}, replaceUsers : BOOLEAN]

InitUpsert ==
  /\ ALLOWED_DOMAINS = <<>>
  /\ \E doc \in UpsertDocs :
       remote = [meta |-> Obj(NoFields), perms |-> doc]
  /\ \E a \in UpsertArgs :
       inv = <<Awaiting(Idle, "socrata_update_permissions", a,
                        socrataGet(Url(a.domain, "permissions", AssetId)),
                        "awaitCurrent")>>
  /\ shaper = ShaperIdle

NextUpsert ==
  \E i \in Invocations :
    \/ assetPermissionsUpdateTool_merge(i)
    \/ assetPermissionsUpdateTool_return(i)

SpecUpsert == InitUpsert /\ [][NextUpsert]_vars

\* ------------------------------------------------ repeated update
\* update-metadata run to its end and then run again with the same arguments,
\* against a remote that stores what is PUT.
MetadataDocs ==
  {x.meta : x \in Assets}
  \cup { Null, Arr(<<Str("x")>>),
         Obj([name |-> Str("B"), tags |-> Arr(<<Str("t1"), Str("t2")>>),
              license |-> Null]) }

InitRepeat ==
  /\ ALLOWED_DOMAINS = <<>>
  /\ \E doc \in MetadataDocs :
       remote = [meta |-> doc, perms |-> Obj(NoFields)]
  /\ \E a \in RaceArgs(MetadataArgs) :
       inv = <<Awaiting(Idle, "socrata_update_metadata", a,
                        socrataGet(Url(a.domain, "views", AssetId)), "awaitCurrent"),
               Idle>>
  /\ shaper = ShaperIdle

\* The second run: the handler called again with the arguments of the first,
\* once the first has returned.
assetMetadataUpdateTool_again ==
  /\ inv[1].pc = "returned"
  /\ assetMetadataUpdateTool_handler(2, inv[1].args)

NextRepeat ==
  \/ assetMetadataUpdateTool_again
  \/ \E i \in RaceInvocations :
       \/ assetMetadataUpdateTool_merge(i)
       \/ assetMetadataUpdateTool_return(i)

SpecRepeat == InitRepeat /\ [][NextRepeat]_vars

\* ================================================================ properties
\* Invocations that have started.
Started == {i \in DOMAIN inv : inv[i].pc # "idle"}

\* The allowlist holds the exact string d.
Listed(d) == \E k \in DOMAIN ALLOWED_DOMAINS : ALLOWED_DOMAINS[k] = d

\* The requests of an invocation that use the given method.
CallsWith(rec, method) == {k \in DOMAIN rec.calls : rec.calls[k].method = method}

\* fetch did not give a parsed body: rejected, a status outside 2xx, or a body
\* that is no JSON.
Failed(reply) ==
  \/ reply.kind = "network"
  \/ reply.status < 200
  \/ reply.status > 299
  \/ reply.body.t = "text"

\* C1: for every tool handler and every invocation, if the allowlist is
\* non-empty and does not contain the invocation's domain, the invocation has
\* ended in an error and has issued no remote GET, PUT or POST.
C1_DisallowedDomainIssuesNoCall ==
  \A i \in Started :
    (Len(ALLOWED_DOMAINS) > 0 /\ ~Listed(inv[i].args.domain))
      => /\ inv[i].pc = "threw"
         /\ inv[i].calls = <<>>

C1_Witness ==
  \E i \in Started :
    /\ inv[i].tool = "socrata_update_user_roles"
    /\ Len(ALLOWED_DOMAINS) > 0
    /\ ~Listed(inv[i].args.domain)
    /\ inv[i].pc = "threw"

\* The error validateDomain threw in an invocation, if it threw.
DomainError(rec) ==
  IF rec.pc = "threw" /\ rec.error.cause.kind = "DomainNotAllowed"
  THEN rec.error.cause ELSE NoError

\* The invocation reached its call of validateDomain.
ReachedGuard(rec) ==
  ~(rec.pc = "threw" /\ rec.error.cause.kind = "InvalidArguments")

\* C2: validateDomain(D) succeeds for every D when the allowlist is empty;
\* when it is non-empty it succeeds iff the allowlist holds the exact string D
\* (case-sensitive, no wildcard), and otherwise fails with DomainNotAllowed
\* carrying D and the full allowed set.
C2_ValidateDomainExactMatch ==
  \A i \in Started :
    ReachedGuard(inv[i]) =>
      IF Len(ALLOWED_DOMAINS) = 0 \/ Listed(inv[i].args.domain)
      THEN DomainError(inv[i]) = NoError
      ELSE DomainError(inv[i]) =
             [kind |-> "DomainNotAllowed", domain |-> inv[i].args.domain,
              allowed |-> ALLOWED_DOMAINS]

C2_Witness ==
  \E i \in Started :
    /\ ALLOWED_DOMAINS = <<"data.x.org", "*.z.org">>
    /\ inv[i].args.domain = "DATA.X.ORG"
    /\ DomainError(inv[i]).kind = "DomainNotAllowed"

\* The patch fields an update-metadata invocation was given.
PresentFields(a) == {k \in MetadataFields : a[k] # Undef}

\* C3: in update-metadata the PUT body equals the fetched document with
\* exactly the present patch fields overwritten; every fetched field absent
\* from the patch is in the body with its fetched value.
C3_MetadataMergeIsSparse ==
  \A i \in Started :
    (inv[i].tool = "socrata_update_metadata" /\ CallsWith(inv[i], "PUT") # {})
      => LET body == inv[i].calls[2].body
             current == inv[i].fetched
             present == PresentFields(inv[i].args)
         IN  /\ IsObj(body)
             /\ DOMAIN body.o = (DOMAIN current.o) \cup present
             /\ \A k \in present : body.o[k] = inv[i].args[k]
             /\ \A k \in (DOMAIN current.o) \ present : body.o[k] = current.o[k]

C3_Witness ==
  \E i \in Started :
    /\ inv[i].tool = "socrata_update_metadata"
    /\ CallsWith(inv[i], "PUT") # {}
    /\ inv[i].args.name = Str("")
    /\ "viewCount" \in DOMAIN inv[i].fetched.o
    /\ inv[i].calls[2].body.o["tags"] = Arr(<<Str("old")>>)

\* C4: in update-metadata and update-permissions, if the initial GET of the
\* current document fails, no PUT is issued and the invocation ends in error.
C4_FailedFetchIssuesNoPut ==
  \A i \in Started :
    ( /\ inv[i].tool \in {"socrata_update_metadata", "socrata_update_permissions"}
      /\ Len(inv[i].replies) >= 1
      /\ Failed(inv[i].replies[1]) )
      => /\ inv[i].pc = "threw"
         /\ CallsWith(inv[i], "PUT") = {}

C4_Witness ==
  \E i \in Started :
    /\ inv[i].tool = "socrata_update_permissions"
    /\ Len(inv[i].replies) = 1
    /\ inv[i].replies[1].kind = "http"
    /\ inv[i].replies[1].status = 404
    /\ inv[i].pc = "threw"

\* An update-permissions invocation that has sent its PUT.
PermissionsPut ==
  {i \in Started : /\ inv[i].tool = "socrata_update_permissions"
                   /\ CallsWith(inv[i], "PUT") # {}}

\* The grants of a permission document, none when it has no users list.
UsersOf(doc) == IF IsArr(Get(doc, "users")) THEN Get(doc, "users").a ELSE <<>>

HasId(g) == Truthy(Get(g, "id"))

HasEmail(g) == Truthy(Get(g, "email"))

\* The matching rule as specified: by id when both grants have one, by email
\* otherwise.
MatchesAsSpecified(new, old) ==
  IF HasId(new) /\ HasId(old) THEN Get(new, "id") = Get(old, "id")
  ELSE HasEmail(new) /\ Get(new, "email") = Get(old, "email")

\* Every field of grant new is in grant g with the same value.
Carries(g, new) ==
  IsObj(g) /\ \A k \in DOMAIN new.o : k \in DOMAIN g.o /\ g.o[k] = new.o[k]

\* C5: in update-permissions with replaceUsers=false, an incoming grant whose
\* id equals the id of an existing grant is merged over that entry at the same
\* index, each incoming grant matching no existing grant is appended, and the
\* merged list is as long as the existing one plus the unmatched incoming ones.
C5_UpsertMergesAtIdIndex ==
  \A i \in PermissionsPut :
    (inv[i].args.users # Undef /\ ~inv[i].args.replaceUsers)
      => LET existing == UsersOf(inv[i].fetched)
             incoming == inv[i].args.users.a
             merged == UsersOf(inv[i].calls[2].body)
             unmatched == {n \in DOMAIN incoming :
                             \A j \in DOMAIN existing :
                               ~MatchesAsSpecified(incoming[n], existing[j])}
         IN  /\ Len(merged) = Len(existing) + Cardinality(unmatched)
             /\ \A n \in DOMAIN incoming, j \in DOMAIN existing :
                  (HasId(incoming[n]) /\ Get(existing[j], "id") = Get(incoming[n], "id"))
                    => Carries(merged[j], incoming[n])

\* C6: an incoming grant with id X is never merged into an existing grant
\* that has a different id Y because the two emails are equal: whatever is
\* merged over an existing grant that has an id has the same id or none, so
\* the entry at its index keeps its id.
C6_EmailNeverOverridesId ==
  \A i \in PermissionsPut :
    (inv[i].args.users # Undef /\ ~inv[i].args.replaceUsers)
      => LET existing == UsersOf(inv[i].fetched)
             merged == UsersOf(inv[i].calls[2].body)
         IN  \A j \in DOMAIN existing :
               HasId(existing[j])
                 => /\ j \in DOMAIN merged
                    /\ Get(merged[j], "id") = Get(existing[j], "id")

\* C7: in update-permissions with a users patch and replaceUsers=true, the
\* users list of the PUT body is exactly the patch's list; an empty patch
\* list gives an empty users list.
C7_ReplaceUsersIsExact ==
  \A i \in PermissionsPut :
    (inv[i].args.users # Undef /\ inv[i].args.replaceUsers)
      => Get(inv[i].calls[2].body, "users") = inv[i].args.users

C7_Witness ==
  \E i \in PermissionsPut :
    /\ inv[i].args.users = Arr(<<>>)
    /\ inv[i].args.replaceUsers
    /\ Len(UsersOf(inv[i].fetched)) = 2
    /\ Get(inv[i].calls[2].body, "users") = Arr(<<>>)

\* The call projects its data before the size check: formatResponse on a
\* sequence with detail=concise.
Projects ==
  /\ shaper.op = "formatResponse"
  /\ shaper.options.detail = "concise"
  /\ IsArr(shaper.data)

\* v is a marker object: _truncated = true and a _message stating the limit
\* and an original length.
IsMarker(v, limit) ==
  /\ IsObj(v)
  /\ Get(v, "_truncated") = Bool(TRUE)
  /\ Get(v, "_message").t = "msg"
  /\ Get(v, "_message").limit = limit

\* C8: truncation is all-or-nothing: data whose serialization is at most the
\* limit is returned unchanged; longer data gives a marker object with
\* _truncated = true and a _message stating the limit and the original
\* serialized length; the output is never a prefix of the serialized text.
C8_TruncationAllOrNothing ==
  ShaperReturned =>
    /\ shaper.out.t # "frag"
    /\ ~Projects =>
         IF StringifyLen(shaper.data) <= shaper.limit
         THEN shaper.out = shaper.data
         ELSE /\ IsMarker(shaper.out, shaper.limit)
              /\ Get(shaper.out, "_message").length = StringifyLen(shaper.data)
    /\ Projects =>
         IF IsArr(shaper.out)
         THEN StringifyLen(shaper.out) <= shaper.limit
         ELSE /\ IsMarker(shaper.out, shaper.limit)
              /\ Get(shaper.out, "_message").length > shaper.limit

C8_Witness ==
  /\ ShaperReturned
  /\ shaper.data = OverLimit
  /\ IsMarker(shaper.out, CHARACTER_LIMIT)
  /\ Get(shaper.out, "_message").length = CHARACTER_LIMIT + 1

\* What the two markers add to a serialization.
MarkersLen(limit, length) ==
  StringifyLen(Obj([_truncated |-> Bool(TRUE), _message |-> Message(limit, length)]))

\* C9: the result is size-bounded: the serialized length of formatResponse's
\* output exceeds the character limit by no more than the two markers' size.
C9_OutputIsSizeBounded ==
  (ShaperReturned /\ shaper.op = "formatResponse")
    => StringifyLen(shaper.out)
         <= CHARACTER_LIMIT
              + (IF IsMarker(shaper.out, CHARACTER_LIMIT)
                 THEN MarkersLen(CHARACTER_LIMIT, Get(shaper.out, "_message").length)
                 ELSE 0)

\* The i-th element of a shaped sequence, which after truncation sits under
\* the property named by its index.
ShapedElement(out, i) ==
  IF IsArr(out) THEN out.a[i] ELSE Get(out, IndexKey(i - 1))

\* A structured record: an object, not a sequence.
IsRecord(v) == IsObj(v)

\* The record holding only those of the concise fields that item has.
OnlyConciseFields(item) ==
  Obj([k \in ConciseFields \cap DOMAIN item.o |-> item.o[k]])

\* C10: with a sequence and detail=concise every record element is replaced
\* by a record of its concise fields and every other element passes through
\* unchanged; with other data or detail=detailed no field is dropped.
C10_ConciseProjection ==
  ShaperReturned /\ shaper.op = "formatResponse" =>
    IF Projects
    THEN \A i \in DOMAIN shaper.data.a :
           Jsonify(ShapedElement(shaper.out, i)) =
             IF IsRecord(shaper.data.a[i])
             THEN OnlyConciseFields(shaper.data.a[i])
             ELSE shaper.data.a[i]
    ELSE DOMAIN Spread(shaper.data) \subseteq DOMAIN Spread(shaper.out)

\* get-schedule invocations that have started.
ScheduleStarted == {i \in Started : inv[i].tool = "socrata_get_schedule"}

\* The domain of the invocation passes the guard.
DomainPermitted(rec) == Len(ALLOWED_DOMAINS) = 0 \/ Listed(rec.args.domain)

\* C11: get-schedule called with neither fxf nor assetName fails with
\* InvalidArguments and issues no remote call.
C11_NeitherModeIsInvalidArguments ==
  \A i \in ScheduleStarted :
    (inv[i].args.fxf = Undef /\ inv[i].args.assetName = Undef)
      => /\ inv[i].pc = "threw"
         /\ inv[i].error.cause.kind = "InvalidArguments"
         /\ inv[i].calls = <<>>

C11_Witness ==
  \E i \in ScheduleStarted :
    /\ inv[i].args.fxf = Undef
    /\ inv[i].args.assetName = Undef
    /\ DomainPermitted(inv[i])
    /\ inv[i].error.cause.kind = "InvalidArguments"

\* What C12 promises of an invocation: no catalog search, one schedule fetch
\* for the fxf once the domain has passed the guard, a single summary returned.
DirectModeOnly(rec) ==
  /\ \A k \in DOMAIN rec.calls : rec.calls[k].url.api = "publishing"
  /\ Len(rec.calls) <= 1
  /\ DomainPermitted(rec) =>
       /\ Len(rec.calls) = 1
       /\ rec.calls[1].method = "GET"
       /\ Str(rec.calls[1].url.id) = rec.args.fxf
  /\ rec.pc = "returned" =>
       /\ IsObj(rec.formatted)
       /\ {"dataset", "schedule"} \subseteq DOMAIN rec.formatted.o

\* C12 (amended): get-schedule called with a non-empty fxf, whether or not
\* assetName is also set, never issues a catalog search: it issues exactly one
\* schedule fetch for that fxf and returns a single summary, never a list.
C12_NonEmptyFxfIsDirect ==
  \A i \in ScheduleStarted : Truthy(inv[i].args.fxf) => DirectModeOnly(inv[i])

C12_Witness ==
  \E i \in ScheduleStarted :
    /\ inv[i].args.fxf = Str("aaaa-0001")
    /\ inv[i].args.assetName = Str("Budget")
    /\ inv[i].pc = "returned"
    /\ Len(inv[i].calls) = 1

\* C12 as stated: the same of every invocation in which fxf is set at all.
C12_FxfSetIsDirect ==
  \A i \in ScheduleStarted : inv[i].args.fxf # Undef => DirectModeOnly(inv[i])

\* The results of a catalog body, none when it has no results list.
CatalogResults(body) ==
  IF IsArr(Get(body, "results")) THEN Get(body, "results").a ELSE <<>>

\* The catalog marks the asset as a dataset by resource type or by domain
\* classification.
MarkedDataset(asset) ==
  \/ Get(Get(asset, "resource"), "type") = Str("dataset")
  \/ Get(Get(asset, "classification"), "domain_category") = Str("dataset")

\* The type the catalog gives an asset, "asset" when it gives none.
TypeOf(asset) ==
  IF Truthy(Get(Get(asset, "resource"), "type"))
  THEN Get(Get(asset, "resource"), "type")
  ELSE IF Truthy(Get(Get(asset, "classification"), "domain_category"))
  THEN Get(Get(asset, "classification"), "domain_category")
  ELSE Str("asset")

\* get-schedule invocations in search mode whose catalog query has answered
\* with a JSON object.
SearchAnswered ==
  {i \in ScheduleStarted :
     /\ ~Truthy(inv[i].args.fxf)
     /\ Len(inv[i].replies) >= 1
     /\ ~Failed(inv[i].replies[1])
     /\ IsObj(inv[i].replies[1].body)}

\* C15: in search mode, a catalog answer with zero results or with no result
\* marked as a dataset ends the invocation with NotFound and no schedule
\* fetch; in the second case the error reports the type of the first result.
C15_NoDatasetIsNotFound ==
  \A i \in SearchAnswered :
    LET found == CatalogResults(inv[i].replies[1].body)
    IN  (\A k \in DOMAIN found : ~MarkedDataset(found[k]))
          => /\ inv[i].pc = "threw"
             /\ inv[i].error.cause.kind = "NotFound"
             /\ Len(inv[i].calls) = 1
             /\ Len(found) > 0 =>
                  inv[i].error.cause.assetType = TypeOf(found[1])

C15_Witness ==
  \E i \in SearchAnswered :
    /\ CatalogResults(inv[i].replies[1].body) = <<FilterC>>
    /\ inv[i].error.cause.kind = "NotFound"
    /\ inv[i].error.cause.assetType = Str("filter")

\* The dataset matches of a search-mode invocation, in catalog order.
Matches(rec) == SelectSeq(CatalogResults(rec.replies[1].body), MarkedDataset)

\* The identifier the catalog gives a match.
MatchId(asset) ==
  IF Truthy(Get(Get(asset, "resource"), "id"))
  THEN Get(Get(asset, "resource"), "id") ELSE Get(asset, "id")

\* The summaries of a resolver result, which is one summary or a sequence.
Summaries(result) == IF IsArr(result) THEN result.a ELSE <<result>>

\* Search-mode invocations that have got past the dataset filter.
SearchLooping ==
  {i \in SearchAnswered : \E k \in DOMAIN Matches(inv[i]) : TRUE}

\* A summary with a populated schedule and no error.
Populated(summary) ==
  /\ IsObj(Get(summary, "schedule"))
  /\ Get(summary, "error") = Undef

\* A summary with schedule = null and a non-empty error.
ErrorEntry(summary) ==
  /\ Get(summary, "schedule") = Null
  /\ Truthy(Get(summary, "error"))

\* The loop runs to its end whatever the fetches give: one fetch per match,
\* no error of the invocation, a result with one entry per match in match order.
LoopCompletes(rec) ==
  /\ rec.pc \in {"awaitItem", "returned"}
  /\ Len(rec.calls) <= 1 + Len(Matches(rec))
  /\ rec.pc = "awaitItem" => Len(rec.calls) = Len(rec.replies) + 1
  /\ rec.pc = "returned" =>
       /\ Len(rec.replies) = 1 + Len(Matches(rec))
       /\ Len(Summaries(rec.result)) = Len(Matches(rec))
       /\ \A k \in DOMAIN Matches(rec) :
            Get(Get(Summaries(rec.result)[k], "dataset"), "fxf")
              = MatchId(Matches(rec)[k])

\* C13 (amended): in search mode a failed schedule fetch never aborts the
\* invocation or the other fetches; the resolver's result has one entry per
\* dataset match in match order; an entry has a populated schedule iff its own
\* fetch succeeded with schedule data, and schedule = null with a non-empty
\* error iff its own fetch failed or answered with no data.
C13_PerItemFailureIsCaptured ==
  \A i \in SearchLooping :
    /\ LoopCompletes(inv[i])
    /\ inv[i].pc = "returned" =>
         \A k \in DOMAIN Matches(inv[i]) :
           LET reply == inv[i].replies[k + 1]
               summary == Summaries(inv[i].result)[k]
           IN  IF ~Failed(reply) /\ Truthy(reply.body)
               THEN Populated(summary) /\ ~ErrorEntry(summary)
               ELSE ErrorEntry(summary) /\ ~Populated(summary)

C13_Witness ==
  \E i \in SearchLooping :
    /\ inv[i].pc = "returned"
    /\ Len(Matches(inv[i])) = 2
    /\ ~Failed(inv[i].replies[2])
    /\ Failed(inv[i].replies[3])
    /\ Populated(Summaries(inv[i].result)[1])
    /\ ErrorEntry(Summaries(inv[i].result)[2])

\* C13 as stated: populated iff the entry's own fetch succeeded, schedule =
\* null with an error iff it failed.
C13_EntryFollowsFetchOutcome ==
  \A i \in SearchLooping :
    /\ LoopCompletes(inv[i])
    /\ inv[i].pc = "returned" =>
         \A k \in DOMAIN Matches(inv[i]) :
           LET reply == inv[i].replies[k + 1]
               summary == Summaries(inv[i].result)[k]
           IN  /\ Populated(summary) <=> ~Failed(reply)
               /\ ErrorEntry(summary) <=> Failed(reply)

\* C14: in search mode with exactly one dataset match the resolver's result
\* is that summary unwrapped; with more than one it is the sequence of
\* summaries in the order of the filtered catalog matches.
C14_SingleMatchIsUnwrapped ==
  \A i \in SearchLooping :
    inv[i].pc = "returned" =>
      IF Len(Matches(inv[i])) = 1
      THEN /\ IsObj(inv[i].result)
           /\ Get(Get(inv[i].result, "dataset"), "fxf") = MatchId(Matches(inv[i])[1])
      ELSE /\ IsArr(inv[i].result)
           /\ Len(inv[i].result.a) = Len(Matches(inv[i]))
           /\ \A k \in DOMAIN Matches(inv[i]) :
                /\ IsObj(inv[i].result.a[k])
                /\ Get(Get(inv[i].result.a[k], "dataset"), "fxf")
                     = MatchId(Matches(inv[i])[k])

C14_Witness ==
  \E i \in SearchLooping :
    /\ inv[i].pc = "returned"
    /\ Matches(inv[i]) = <<DatasetA>>
    /\ IsObj(inv[i].result)
    /\ Get(Get(inv[i].result, "dataset"), "fxf") = Str("aaaa-0001")

\* Adapter calls that have settled.
AdapterSettled == {i \in DOMAIN inv : inv[i].pc \in {"returned", "threw"}}

\* The status is in the success range.
SuccessStatus(status) == status \in 200..299

\* C16 (amended): get, put and post return the parsed JSON body iff the
\* status is in the success range and the body is JSON; for every non-success
\* status the call fails with an error carrying the status code, the status
\* text and the body read as text, and returns no value; a success status
\* with a body that is no JSON fails with the parser's error.
C16_AdapterStatusHandling ==
  \A i \in AdapterSettled :
    LET reply == inv[i].replies[1]
    IN  reply.kind = "http" =>
          /\ inv[i].pc = "returned"
               <=> (SuccessStatus(reply.status) /\ reply.body.t # "text")
          /\ inv[i].pc = "returned" => inv[i].result = reply.body
          /\ ~SuccessStatus(reply.status) =>
               /\ inv[i].pc = "threw"
               /\ inv[i].result = Undef
               /\ inv[i].error = [kind |-> "RemoteError", status |-> reply.status,
                                  statusText |-> reply.statusText,
                                  body |-> reply.body]
          /\ (SuccessStatus(reply.status) /\ reply.body.t = "text") =>
               /\ inv[i].error.kind = "SyntaxError"
               /\ inv[i].result = Undef

C16_Witness ==
  \E i \in AdapterSettled :
    /\ inv[i].calls[1].method = "POST"
    /\ inv[i].replies[1].kind = "http"
    /\ inv[i].replies[1].status = 300
    /\ inv[i].pc = "threw"
    /\ inv[i].error.kind = "RemoteError"
    /\ inv[i].error.body = Null

\* C16 as stated: the call returns the parsed body iff the status is in the
\* success range.
C16_ReturnsIffSuccessStatus ==
  \A i \in AdapterSettled :
    inv[i].replies[1].kind = "http" =>
      (inv[i].pc = "returned" <=> SuccessStatus(inv[i].replies[1].status))

\* update-metadata and update-permissions invocations that have started.
MergeStarted ==
  {i \in Started :
     inv[i].tool \in {"socrata_update_metadata", "socrata_update_permissions"}}

\* The fields of the fetched document that the invocation's patch leaves alone.
Untouched(rec, current) ==
  IF rec.tool = "socrata_update_metadata"
  THEN (DOMAIN current.o) \ PresentFields(rec.args)
  ELSE (DOMAIN current.o) \ {"scope", "users"}

\* C17: an update-metadata or update-permissions invocation issues exactly one
\* GET, then at most one PUT to the same resource whose body is computed from
\* that GET's response; a failed GET or PUT is never attempted again.
C17_ReadMergeWriteOnce ==
  \A i \in MergeStarted :
    LET rec == inv[i]
    IN  /\ Len(rec.calls) <= 2
        /\ Len(rec.replies) <= Len(rec.calls)
        /\ Len(rec.calls) <= Len(rec.replies) + 1
        /\ Len(rec.calls) >= 1 => rec.calls[1].method = "GET"
        /\ \A k \in DOMAIN rec.replies :
             Failed(rec.replies[k]) => (Len(rec.calls) = k /\ rec.pc = "threw")
        /\ Len(rec.calls) = 2 =>
             /\ rec.calls[2].method = "PUT"
             /\ rec.calls[2].url = rec.calls[1].url
             /\ \A k \in Untouched(rec, rec.replies[1].body) :
                  Get(rec.calls[2].body, k) = rec.replies[1].body.o[k]

C17_Witness ==
  \E i \in MergeStarted :
    /\ inv[i].tool = "socrata_update_permissions"
    /\ Len(inv[i].calls) = 2
    /\ Len(inv[i].replies) = 2
    /\ Failed(inv[i].replies[2])
    /\ inv[i].pc = "threw"

\* The error an adapter call gives for a failed reply.
CauseOf(reply) ==
  IF reply.kind = "network" THEN [kind |-> "TransportError"]
  ELSE IF ~SuccessStatus(reply.status)
  THEN [kind |-> "RemoteError", status |-> reply.status,
        statusText |-> reply.statusText, body |-> reply.body]
  ELSE [kind |-> "SyntaxError"]

\* The k-th fetch of the invocation is a per-item schedule fetch of
\* get-schedule's search mode.
PerItemFetch(rec, k) ==
  /\ rec.tool = "socrata_get_schedule"
  /\ rec.calls[1].url.api = "catalog/v1?q"
  /\ k >= 2

\* The failures that must end the invocation: the domain guard's, and a failed
\* remote call other than a per-item schedule fetch.
FatalFailures(rec) ==
  (IF ReachedGuard(rec) /\ ~DomainPermitted(rec)
   THEN {[kind |-> "DomainNotAllowed", domain |-> rec.args.domain,
          allowed |-> ALLOWED_DOMAINS]}
   ELSE {})
  \cup {CauseOf(rec.replies[k]) :
          k \in {j \in DOMAIN rec.replies :
                   Failed(rec.replies[j]) /\ ~PerItemFetch(rec, j)}}

\* C18: whenever domain validation or a remote call of an invocation fails,
\* the invocation ends with a single error that names the operation and the
\* domain and carries the underlying error; no handler returns a payload
\* after such a failure, per-item schedule fetches of search mode excepted.
C18_FailuresAreWrapped ==
  \A i \in Started :
    FatalFailures(inv[i]) # {} =>
      /\ inv[i].pc = "threw"
      /\ inv[i].text = Undef
      /\ \E cause \in FatalFailures(inv[i]) :
           inv[i].error = [kind |-> "ToolError", tool |-> inv[i].tool,
                           domain |-> inv[i].args.domain, cause |-> cause]
      /\ Cardinality(FatalFailures(inv[i])) = 1

C18_Witness ==
  \E i \in Started :
    /\ inv[i].tool = "socrata_update_metadata"
    /\ Len(inv[i].replies) = 2
    /\ Failed(inv[i].replies[2])
    /\ inv[i].error.cause.kind = "RemoteError"
    /\ inv[i].error.cause.status = 404

\* update-permissions invocations that have returned their payload.
PermissionsReturned ==
  {i \in DOMAIN inv : /\ inv[i].tool = "socrata_update_permissions"
                      /\ inv[i].pc = "returned"
                      /\ inv[i].text # Undef}

\* Grant g is in the users list of permission document doc.
StoredIn(doc, g) == \E k \in DOMAIN UsersOf(doc) : UsersOf(doc)[k] = g

Stored(g) == StoredIn(remote.perms, g)

\* Invocations i and j both read the same document before either wrote and
\* add different grants.
SameFetched(i, j) ==
  /\ i # j
  /\ inv[i].tool = "socrata_update_permissions"
  /\ inv[j].tool = "socrata_update_permissions"
  /\ Len(inv[i].calls) >= 2
  /\ Len(inv[j].calls) >= 2
  /\ inv[i].replies[1].body = inv[j].replies[1].body
  /\ inv[i].args.users # inv[j].args.users

\* Both have reported success and j's write was the last to be stored.
LostUpdateRun(i, j) ==
  /\ SameFetched(i, j)
  /\ {i, j} \subseteq PermissionsReturned
  /\ remote.perms = inv[j].calls[2].body

\* The step in which j's PUT is answered with success after i has already
\* reported success.
SecondPutSettles(i, j) ==
  /\ SameFetched(i, j)
  /\ i \in PermissionsReturned
  /\ inv[j].pc = "awaitPut"
  /\ inv'[j].pc = "returned"

\* C19: two concurrent update-permissions invocations are not coordinated:
\* when both build their PUT body from the same fetched document, the grant
\* added by the first one is stored by its PUT and is gone from the stored
\* users list once the second one's PUT is stored, although both report
\* success.
C19_ConcurrentUpdatesLoseGrant ==
  [][\A i \in RaceInvocations, j \in RaceInvocations :
       SecondPutSettles(i, j) =>
         /\ inv'[j].text # Undef
         /\ \A k \in DOMAIN inv[i].args.users.a :
              /\ Stored(inv[i].args.users.a[k])
              /\ ~StoredIn(remote'.perms, inv[i].args.users.a[k])
         /\ \A k \in DOMAIN inv[j].args.users.a :
              StoredIn(remote'.perms, inv[j].args.users.a[k])]_vars

C19_Witness ==
  /\ LostUpdateRun(1, 2)
  /\ inv[1].args.users = Arr(<<GrantU3>>)
  /\ inv[2].args.users = Arr(<<GrantU4>>)
  /\ ~Stored(GrantU3)
  /\ Stored(GrantU4)

\* C20: there is no cross-request state: the allowlist stays as configured,
\* and two invocations with the same tool, arguments and remote responses end
\* the same way whatever ran before them or is interleaved with them.
C20_NoCrossRequestState ==
  /\ ALLOWED_DOMAINS = RaceAllowed
  /\ \A i \in DOMAIN inv, j \in DOMAIN inv :
       ( /\ inv[i].pc # "idle"
         /\ inv[j].pc # "idle"
         /\ inv[i].tool = inv[j].tool
         /\ inv[i].args = inv[j].args
         /\ inv[i].replies = inv[j].replies )
         => inv[i] = inv[j]

C20_Witness ==
  /\ inv[1].pc = "returned"
  /\ inv[2].pc = "returned"
  /\ inv[1].tool = "socrata_update_permissions"
  /\ inv[2].tool = "socrata_update_permissions"
  /\ inv[1].args = inv[2].args
  /\ inv[1].replies = inv[2].replies
  /\ inv[1].text = inv[2].text

\* The data a returned invocation had for the shaper, and the options its
\* handler passes to it.
ShaperInput(rec) ==
  IF rec.tool = "socrata_get_schedule" /\ Truthy(rec.args.fxf)
  THEN formatScheduleResponse(rec.result, Undef)
  ELSE rec.result

ShaperOptions(rec) ==
  [format |-> rec.args.format,
   detail |-> IF "detail" \in DOMAIN rec.args THEN rec.args.detail ELSE "undefined"]

\* C21: for every handler and every successful invocation, in both formats,
\* the JSON in the text payload is the output of formatResponse on the
\* handler's data; this includes get-schedule in direct mode.
C21_TextIsShaperOutput ==
  \A i \in DOMAIN inv :
    inv[i].pc = "returned" =>
      inv[i].text = Text(inv[i].args.format,
                         formatResponse(ShaperInput(inv[i]), ShaperOptions(inv[i])))

\* The same for every path but get-schedule in direct mode.
C21_ShapedOutsideDirectMode ==
  \A i \in DOMAIN inv :
    (inv[i].pc = "returned"
       /\ ~(inv[i].tool = "socrata_get_schedule" /\ Truthy(inv[i].args.fxf))) =>
      inv[i].text = Text(inv[i].args.format,
                         formatResponse(ShaperInput(inv[i]), ShaperOptions(inv[i])))

\* An update-permissions invocation that has sent the PUT of an upsert: a
\* users patch with replaceUsers=false.
Upserts ==
  {i \in PermissionsPut : inv[i].args.users # Undef /\ ~inv[i].args.replaceUsers}

\* The positions of the fetched list that incoming grant g matches.
Hits(existing, g) == {p \in DOMAIN existing : userMatches(g, existing[p])}

\* The incoming grants that match nothing in the fetched list, by position.
Unmatched(existing, incoming) ==
  {n \in DOMAIN incoming : Hits(existing, incoming[n]) = {}}

\* The lowest position of a non-empty set of positions.
Lowest(S) == CHOOSE p \in S : \A h \in S : p <= h

\* The q-th smallest member of a set of positions.
Nth(S, q) == CHOOSE n \in S : Cardinality({m \in S : m <= n}) = q

\* C22: the upsert matches first-match-wins against the fetched list: of the
\* entries an incoming grant matches only the lowest one is updated, every
\* other entry stays as fetched, and each incoming grant that matches nothing
\* in the fetched list is appended as it is, in order, whatever was appended
\* before it.
C22_FirstMatchAgainstOriginal ==
  \A i \in Upserts :
    LET existing == UsersOf(inv[i].fetched)
        incoming == inv[i].args.users.a
        merged == UsersOf(inv[i].calls[2].body)
        matched == (DOMAIN incoming) \ Unmatched(existing, incoming)
        winners == {Lowest(Hits(existing, incoming[n])) : n \in matched}
        unmatched == Unmatched(existing, incoming)
    IN  /\ Len(merged) = Len(existing) + Cardinality(unmatched)
        /\ \A p \in (DOMAIN existing) \ winners : merged[p] = existing[p]
        /\ \A n \in matched :
             LET p == Lowest(Hits(existing, incoming[n]))
             IN  (\A m \in matched :
                    Lowest(Hits(existing, incoming[m])) = p => m <= n)
                   => Carries(merged[p], incoming[n])
        /\ \A q \in 1..Cardinality(unmatched) :
             merged[Len(existing) + q] = incoming[Nth(unmatched, q)]

C22_Witness ==
  \E i \in Upserts :
    LET existing == UsersOf(inv[i].fetched)
        incoming == inv[i].args.users.a
        merged == UsersOf(inv[i].calls[2].body)
    IN  /\ Len(incoming) = 2
        /\ Hits(existing, incoming[1]) = {1, 2}
        /\ merged[1] # existing[1]
        /\ merged[2] = existing[2]
        /\ Hits(existing, incoming[2]) = {}
        /\ Len(merged) = 3

\* Grant g has neither id nor email.
Anonymous(g) == ~HasId(g) /\ ~HasEmail(g)

\* C23: in the upsert an incoming grant with neither id nor email is appended
\* as a new entry after the fetched ones and is merged into none of them: an
\* entry that differs from the fetched one carries an incoming grant that has
\* an id or an email. This holds for fetched lists that hold grants lacking
\* id or email too.
C23_AnonymousGrantIsAppended ==
  \A i \in Upserts :
    LET existing == UsersOf(inv[i].fetched)
        incoming == inv[i].args.users.a
        merged == UsersOf(inv[i].calls[2].body)
        anonymous == {n \in DOMAIN incoming : Anonymous(incoming[n])}
    IN  /\ Len(merged) >= Len(existing) + Cardinality(anonymous)
        /\ \A n \in anonymous :
             \E q \in (Len(existing) + 1)..Len(merged) : merged[q] = incoming[n]
        /\ \A p \in DOMAIN existing :
             merged[p] # existing[p]
               => \E m \in (DOMAIN incoming) \ anonymous : Carries(merged[p], incoming[m])

C23_Witness ==
  \E i \in Upserts :
    LET existing == UsersOf(inv[i].fetched)
        incoming == inv[i].args.users.a
        merged == UsersOf(inv[i].calls[2].body)
    IN  /\ Len(existing) = 2
        /\ Anonymous(existing[1])
        /\ ~HasId(existing[2])
        /\ Len(incoming) = 1
        /\ Anonymous(incoming[1])
        /\ merged = existing \o incoming

\* The names of the two markers.
MarkerNames == {"_truncated", "_message"}

\* A call whose data went to the size check as it was and exceeded the limit.
Truncates ==
  /\ ShaperReturned
  /\ ~Projects
  /\ StringifyLen(shaper.data) > shaper.limit

\* C24 as stated: the truncated representation holds every top-level field
\* of the data with its original value plus exactly the two markers, and a
\* sequence becomes a record of its elements keyed by index.
C24_TruncatedKeepsEveryField ==
  Truncates =>
    LET own == Spread(shaper.data)
    IN  /\ IsObj(shaper.out)
        /\ DOMAIN shaper.out.o = (DOMAIN own) \cup MarkerNames
        /\ \A k \in DOMAIN own : shaper.out.o[k] = own[k]
        /\ IsMarker(shaper.out, shaper.limit)

\* C24: the truncated representation is a record holding the two markers and
\* every top-level field of the data not named like a marker, with its
\* original value; a field of the data named _truncated or _message is
\* replaced by the marker. A sequence becomes a record of its elements keyed
\* by index, not a sequence.
C24_TruncatedKeepsOtherFields ==
  Truncates =>
    LET own == Spread(shaper.data)
    IN  /\ IsObj(shaper.out)
        /\ DOMAIN shaper.out.o = (DOMAIN own) \cup MarkerNames
        /\ \A k \in (DOMAIN own) \ MarkerNames : shaper.out.o[k] = own[k]
        /\ IsMarker(shaper.out, shaper.limit)
        /\ IsArr(shaper.data) =>
             \A n \in DOMAIN shaper.data.a :
               Get(shaper.out, IndexKey(n - 1)) = shaper.data.a[n]

C24_Witness ==
  /\ Truncates
  /\ IsArr(shaper.data)
  /\ Len(shaper.data.a) = 2
  /\ IsObj(shaper.out)
  /\ DOMAIN shaper.out.o = {"0", "1"} \cup MarkerNames
  /\ Get(shaper.out, "1") = shaper.data.a[2]

\* The tools whose annotations declare readOnlyHint: true and that the tool
\* table lists as non-mutating.
ReadOnlyTools ==
  { "socrata_get_catalog", "socrata_search_catalog", "socrata_search_users",
    "socrata_search_teams", "socrata_get_metadata", "socrata_get_permissions",
    "socrata_get_schedule", "socrata_get_activity_log", "socrata_get_user_roles" }

\* C25: an invocation of a tool declared read-only issues GET requests only,
\* on every path, the error paths included.
C25_ReadOnlyToolsOnlyGet ==
  \A i \in Started :
    inv[i].tool \in ReadOnlyTools
      => \A k \in DOMAIN inv[i].calls : inv[i].calls[k].method = "GET"

C25_Witness ==
  \E i \in Started :
    /\ inv[i].tool = "socrata_get_permissions"
    /\ inv[i].pc = "threw"
    /\ Len(inv[i].calls) = 1
    /\ inv[i].calls[1].method = "GET"
    /\ inv[i].replies[1].kind = "network"

\* The first run has returned: its PUT was stored.
RanOnce == inv[1].pc = "returned"

\* The document stored by the first run.
StoredOnce == inv[1].calls[2].body

\* C26: update-metadata is idempotent against a remote that stores the PUT
\* body: throughout and after a second run with the same arguments the stored
\* document is the one the first run stored, and the second run PUTs that
\* same document.
C26_MetadataUpdateIsIdempotent ==
  RanOnce =>
    /\ remote.meta = StoredOnce
    /\ Len(inv[2].calls) = 2 => inv[2].calls[2].body = StoredOnce

C26_Witness ==
  /\ RanOnce
  /\ inv[2].pc = "returned"
  /\ inv[1].fetched # StoredOnce
  /\ inv[2].fetched = StoredOnce
  /\ inv[1].args.tags # Undef
  /\ IsArr(Get(inv[1].fetched, "tags"))
  /\ remote.meta = StoredOnce

\* No two grants of the list have the same id.
IdsUnique(users) ==
  \A p \in DOMAIN users, q \in DOMAIN users :
    (p # q /\ HasId(users[p]) /\ HasId(users[q]))
      => Get(users[p], "id") # Get(users[q], "id")

\* C27: the upsert keeps grant ids unique: when no two grants of the fetched
\* list have the same id, no two grants of the merged list have, whatever the
\* incoming list is.
C27_UpsertKeepsIdsUnique ==
  \A i \in Upserts :
    IdsUnique(UsersOf(inv[i].fetched)) => IdsUnique(UsersOf(inv[i].calls[2].body))

\* The same when the incoming list names no id twice and holds no grant with
\* an email: a repeated new id and a match by email are the two ways in which
\* an id comes to be held twice.
C27_UniqueWithoutEmailOrRepeats ==
  \A i \in Upserts :
    LET existing == UsersOf(inv[i].fetched)
        incoming == inv[i].args.users.a
    IN  ( /\ IdsUnique(existing)
          /\ IdsUnique(incoming)
          /\ \A n \in DOMAIN incoming : ~HasEmail(incoming[n]) )
          => IdsUnique(UsersOf(inv[i].calls[2].body))

\* Search-mode invocations that returned for two or more dataset matches.
ListsReturned ==
  {i \in SearchLooping : inv[i].pc = "returned" /\ Len(Matches(inv[i])) >= 2}

\* The k-th element of the JSON in the text of invocation i shows the k-th
\* summary: its dataset, its schedule and, for a failed fetch, its error.
ShowsEntry(i, k) ==
  LET shown == ShapedElement(inv[i].text.json, k)
      summary == inv[i].result.a[k]
  IN  /\ Get(shown, "dataset") = Jsonify(Get(summary, "dataset"))
      /\ Get(shown, "schedule") = Jsonify(Get(summary, "schedule"))
      /\ Failed(inv[i].replies[k + 1]) => Truthy(Get(shown, "error"))

\* C28: in search mode with two or more dataset matches every element of the
\* final text keeps its dataset, schedule and (for a failed fetch) error
\* fields at both detail levels.
C28_EntriesVisibleAtEitherDetail ==
  \A i \in ListsReturned :
    \A k \in DOMAIN Matches(inv[i]) : ShowsEntry(i, k)

\* The same at detail=detailed only.
C28_EntriesVisibleWhenDetailed ==
  \A i \in ListsReturned :
    inv[i].args.detail = "detailed"
      => \A k \in DOMAIN Matches(inv[i]) : ShowsEntry(i, k)

\* get-schedule invocations that are over.
ScheduleOver == {i \in ScheduleStarted : inv[i].pc \in {"returned", "threw"}}

\* The remote calls of a get-schedule invocation: one in direct mode; in
\* search mode the catalog query and then one schedule fetch for each match
\* marked as a dataset, each call issued after the one before was answered.
ScheduleCalls(rec) ==
  /\ Len(rec.calls) <= 1 \/ rec.calls[1].url.api = "catalog/v1?q"
  /\ Len(rec.calls) >= 2 =>
       /\ ~Failed(rec.replies[1])
       /\ Len(rec.calls) <= 1 + Len(Matches(rec))
       /\ \A k \in 2..Len(rec.calls) :
            /\ rec.calls[k].url.api = "publishing"
            /\ Str(rec.calls[k].url.id) = MatchId(Matches(rec)[k - 1])
  /\ \A k \in DOMAIN rec.calls : rec.calls[k].method = "GET"
  /\ IF rec.pc \in {"returned", "threw"}
     THEN Len(rec.replies) = Len(rec.calls)
     ELSE Len(rec.replies) + 1 = Len(rec.calls)
  /\ (rec.pc = "returned" /\ Truthy(rec.args.fxf)) => Len(rec.calls) = 1
  /\ (rec.pc = "returned" /\ ~Truthy(rec.args.fxf))
       => Len(rec.calls) = 1 + Len(Matches(rec))
  /\ rec.pc = "threw" =>
       /\ Len(rec.calls) <= 1
       /\ rec.error.cause.kind # "ImplementationError"

\* A step of a get-schedule handler, from one await to the next or to its
\* end, moves down a well-founded order: it ends the invocation, or goes from
\* the start to the first call, from the catalog query to the first schedule
\* fetch, or from one schedule fetch to the next with fewer matches left.
Progresses(rec, next) ==
  \/ next.pc \in {"returned", "threw"}
  \/ rec.pc = "idle" /\ next.pc \in {"awaitDirect", "awaitCatalog"}
  \/ rec.pc = "awaitCatalog" /\ next.pc = "awaitItem"
  \/ /\ rec.pc = "awaitItem"
     /\ next.pc = "awaitItem"
     /\ Len(next.work) < Len(rec.work)

\* C29: a get-schedule invocation issues one call in direct mode, and in
\* search mode one catalog query and one schedule fetch per dataset match
\* (none for other matches); it waits on one call at a time and every answer
\* takes it closer to its end, so once every call it issued has returned or
\* failed it is over with a result or an error, and never with the
\* implementation error.
C29_ScheduleCallsAndTermination ==
  /\ [](\A i \in ScheduleStarted : ScheduleCalls(inv[i]))
  /\ [][\A i \in Invocations :
          (inv'[i] # inv[i] /\ inv'[i].tool = "socrata_get_schedule")
            => Progresses(inv[i], inv'[i])]_vars

C29_Witness ==
  \E i \in ScheduleOver :
    /\ inv[i].pc = "returned"
    /\ CatalogResults(inv[i].replies[1].body) = <<FilterC, DatasetA, DatasetB>>
    /\ Len(inv[i].calls) = 3
    /\ Failed(inv[i].replies[2])

\* C30: in update-permissions without a users patch the users list of the
\* PUT body is the fetched one whatever replaceUsers is, and without a scope
\* the scope of the PUT body is the fetched one.
C30_AbsentPatchLeavesFieldAsFetched ==
  \A i \in PermissionsPut :
    LET a == inv[i].args
        body == inv[i].calls[2].body
    IN  /\ a.users = Undef => Get(body, "users") = Get(inv[i].fetched, "users")
        /\ a.scope = Undef => Get(body, "scope") = Get(inv[i].fetched, "scope")

C30_Witness ==
  \E i \in PermissionsPut :
    /\ inv[i].args.users = Undef
    /\ inv[i].args.replaceUsers
    /\ inv[i].args.scope = Undef
    /\ Len(UsersOf(inv[i].fetched)) = 2
    /\ Get(inv[i].fetched, "scope") = Str("private")
    /\ inv[i].calls[2].body = inv[i].fetched

====
